---- MODULE Spec2Model ----
(***************************************************************************)
(* CodexMonitor daemon: connection handlers, RPC dispatch, event fan-out   *)
(* and the outbound runner (orbit) reconnect loop.                         *)
(*                                                                         *)
(* The sources hold the daemon twice: the single-file daemon               *)
(* (bin/codex_monitor_daemon.rs: handle_client, handle_orbit_line,         *)
(* run_orbit_mode) and its transport module                                *)
(* (bin/codex_monitor_daemon/transport.rs).  One process runs one of them; *)
(* `build` says which, and is fixed at start.                              *)
(***************************************************************************)
EXTENDS Naturals, Sequences, FiniteSets, TLC

(* ------------------------------ bounds -------------------------------- *)
\* lines carrying an unsigned id that one connection reads
MaxIds == 2
\* events published on the bus
MaxEvents == 3
\* slots of the broadcast channel (2048 in main; small here so that a slow
\* subscriber can lag)
BusCapacity == 1
\* permits of one connection's limiter (the compile-time constant
\* MAX_IN_FLIGHT_RPC_PER_CONNECTION; its value is not in the sources)
MAX_IN_FLIGHT_RPC_PER_CONNECTION == 1
\* successful runner connections
MaxConnects == 1
\* successful connections of a runner whose relay sends nothing
MaxReconnects == 2
\* command-line arguments
MaxArgs == 3
\* the ghost count of consecutive failures saturates here
MaxFailures == 7
\* workspace ids the registry hands out, the stored workspace's included
MaxWorkspaces == 2
\* agent subprocesses spawned
MaxSpawns == 2
MaxLines == 3
MaxFrames == 2
\* child processes the desktop app spawns
MaxChildren == 2
\* characters of a remote host
MaxHostLen == 6

(* ------------------------- program constants -------------------------- *)
\* Duration::from_secs(1): the base reconnect delay
BASE_DELAY == 1
\* Duration::from_secs(20): the ceiling of the reconnect delay
MAX_DELAY == 20

(* --------------------------- JSON values ------------------------------ *)
\* A JSON value as far as the handlers look at it: its type tag, its string
\* (for a string, or for the `token` member of an object) and its number.
J(t, s, n) == [t |-> t, s |-> s, n |-> n]
JAbsent == J("absent", "", 0)
JNull == J("null", "", 0)
JStr(s) == J("str", s, 0)
JUint(n) == J("uint", "", n)
\* an object whose `token` member is the string s
JObjToken(s) == J("obj", s, 1)
\* an object with no string `token` member
JObjOther == J("obj", "", 0)

\* Option<u64> / Option<String>
None == [some |-> FALSE, n |-> 0, s |-> ""]
SomeN(n) == [some |-> TRUE, n |-> n, s |-> ""]
SomeS(s) == [some |-> TRUE, n |-> 0, s |-> s]

\* message.get("id").and_then(|value| value.as_u64())
as_u64(v) == IF v.t = "uint" THEN SomeN(v.n) ELSE None

\* .get("method").and_then(|value| value.as_str()).unwrap_or("")
method_of(v) == IF v.t = "str" THEN v.s ELSE ""

\* message.get("params").cloned().unwrap_or(Value::Null)
params_of(v) == IF v.t = "absent" THEN JNull ELSE v

\* str::to_ascii_lowercase on the strings a `type` takes here
to_ascii_lowercase(s) == IF s \in {"PING", "Ping"} THEN "ping" ELSE s

\* a comparison that tells the cases apart
eq_exactly(a, b) == a = b

\* str::eq_ignore_ascii_case
eq_ignore_ascii_case(a, b) == to_ascii_lowercase(a) = to_ascii_lowercase(b)

\* message.get("type").and_then(Value::as_str)
type_of(v) == IF v.t = "str" THEN SomeS(v.s) ELSE None

parse_auth_token(params) ==
    CASE params.t = "str" -> SomeS(params.s)
      [] params.t = "obj" -> IF params.n = 1 THEN SomeS(params.s) ELSE None
      [] OTHER -> None

\* an unwrapping that loses the value
unwrap_or_empty(o) == ""

\* Option<String>::unwrap_or_default()
unwrap_or_default(o) == IF o.some THEN o.s ELSE ""

(* ----------------------------- messages ------------------------------- *)
TheToken == "secret"

\* a parsed JSON message; `line` is "json" for one, and "blank" or "garbage"
\* for a line that is empty or does not parse
Msg(line, type, id, method, params) ==
    [line |-> line, type |-> type, id |-> id, method |-> method, params |-> params]

Line(id, method, params) == Msg("json", JAbsent, id, method, params)

\* What a client may send as its next line, k being its next fresh id.  With
\* the id k: an empty method, `auth` with the token or with a wrong one, a
\* known and an unknown method.  Without an unsigned id: `auth` with the
\* token in an object or with no params, a known method with no id or with a
\* string for one, no method at all.  And an empty line and one that is no
\* JSON.
RpcLines(k) ==
    {Line(JUint(k), JStr(""), JAbsent),
     Line(JUint(k), JStr("auth"), JStr(TheToken)),
     Line(JUint(k), JStr("auth"), JStr("wrong")),
     Line(JUint(k), JStr("ping"), JAbsent),
     Line(JUint(k), JStr("nope"), JAbsent),
     Line(JAbsent, JStr("auth"), JObjToken(TheToken)),
     Line(JAbsent, JStr("auth"), JAbsent),
     Line(JAbsent, JStr("ping"), JAbsent),
     Line(JStr("x"), JStr("ping"), JAbsent),
     Line(JAbsent, JAbsent, JAbsent),
     Msg("blank", JAbsent, JAbsent, JAbsent, JAbsent),
     Msg("garbage", JAbsent, JAbsent, JAbsent, JAbsent)}

\* What the relay may send to the runner, k being its next fresh id (a
\* frame's empty lines are filtered out before handle_orbit_line).  With the
\* id k: an empty method, `auth` with any token, a known and an unknown
\* method, and a typed ping frame that also has a method.  Without an
\* unsigned id: `auth`, a known method, no method at all, a frame of another
\* type, and a line that is no JSON.
OrbitLines(k) ==
    {Line(JUint(k), JStr(""), JAbsent),
     Line(JUint(k), JStr("auth"), JStr("wrong")),
     Line(JUint(k), JStr("ping"), JAbsent),
     Line(JUint(k), JStr("nope"), JAbsent),
     Msg("json", JStr("PING"), JUint(k), JStr("ping"), JAbsent),
     Line(JAbsent, JStr("auth"), JAbsent),
     Line(JAbsent, JStr("ping"), JAbsent),
     Line(JStr("x"), JStr("ping"), JAbsent),
     Line(JAbsent, JAbsent, JAbsent),
     Msg("json", JStr("other"), JAbsent, JStr("ping"), JAbsent),
     Msg("garbage", JAbsent, JAbsent, JAbsent, JAbsent)}

(* ------------------------- outbound envelopes ------------------------- *)
\* One entry of a connection's outbound queue: a response {id, result} or
\* {id, error:{message}}, an event notification, or a runner control frame.
Entry(kind, id, text, ev) == [kind |-> kind, id |-> id, text |-> text, ev |-> ev]

OkTrue == "{ok:true}"

\* an error envelope built with `"id": null` for a request that has no id
build_error_response_null_id(id, message) ==
    <<Entry("error", IF id.some THEN id.n ELSE 0, message, 0)>>

build_error_response(id, message) ==
    IF ~id.some THEN <<>> ELSE <<Entry("error", id.n, message, 0)>>

\* a response that refuses whatever was asked
build_result_response_refusing(id, result) == build_error_response(id, "unauthorized")

build_result_response(id, result) ==
    IF ~id.some THEN <<>> ELSE <<Entry("result", id.n, result, 0)>>

EventKinds == {"AppServer", "TerminalOutput", "TerminalExit"}

build_event_notification(event) ==
    LET method == CASE event.kind = "AppServer" -> "app-server-event"
                    [] event.kind = "TerminalOutput" -> "terminal-output"
                    [] OTHER -> "terminal-exit"
    IN <<Entry("event", 0, method, event.seq)>>

Pong == Entry("pong", 0, "pong", 0)
Hello == Entry("hello", 0, "anchor.hello", 0)

(* --------------------------- RPC engine ------------------------------- *)
\* handle_rpc_request: Ok(value) or Err(message)
Ok(v) == [ok |-> TRUE, text |-> v]
Err(m) == [ok |-> FALSE, text |-> m]

handle_rpc_request(method, params) ==
    CASE method = "ping" -> Ok(OkTrue)
      [] OTHER -> Err("unknown method: " \o method)

(* ------------------------ parameter extraction ------------------------ *)
\* the members of `params` that the modelled methods read
Keys == {"path", "codex_bin", "id", "settings"}

\* a JSON object with these members (JAbsent: no such member)
JMap(m) == [t |-> "map", s |-> "", n |-> 0, m |-> m]

\* map.get(key)
get(value, key) == IF value.t = "map" THEN value.m[key] ELSE JAbsent

\* a key between the back quotes of format!("`{key}`"); the back quote is
\* written ' in the strings of this module
Quoted(key) == "'" \o key \o "'"

\* a parse_string that reads a missing or wrong-typed member as ""
parse_string_lenient(value, key) ==
    IF get(value, key).t = "str" THEN Ok(get(value, key).s) ELSE Ok("")

\* parse_string: Ok(string) or Err(message)
parse_string(value, key) ==
    IF value.t = "map"
    THEN IF get(value, key).t = "str" THEN Ok(get(value, key).s)
         ELSE Err("missing or invalid " \o Quoted(key))
    ELSE Err("missing " \o Quoted(key))

\* parse_optional_string
parse_optional_string(value, key) ==
    IF get(value, key).t = "str" THEN SomeS(get(value, key).s) ELSE None

\* serde_json::from_value::<AppSettings>(..).map_err(|err| err.to_string()):
\* an object is read as settings, anything else is an error of serde_json
from_value(value) ==
    CASE value.t = "obj" -> Ok("settings")
      [] value.t = "null" -> Err("invalid type: null, expected struct AppSettings")
      [] value.t = "str" -> Err("invalid type: string, expected struct AppSettings")
      [] OTHER -> Err("invalid type: integer, expected struct AppSettings")

\* the arguments an operation is invoked with
NoArgs == [path |-> None, codex_bin |-> None, id |-> None, settings |-> None]
Extracted(args) == [ok |-> TRUE, text |-> "", args |-> args]
Refused(message) == [ok |-> FALSE, text |-> message, args |-> NoArgs]

\* handle_rpc_request up to the call of the operation: the arm of the method
\* and the extraction of its parameters, `?` returning the first error
route(method, params) ==
    CASE method \in {"ping", "list_workspaces"} -> Extracted(NoArgs)
      [] method = "add_workspace" ->
            LET path == parse_string(params, "path")
                codex_bin == parse_optional_string(params, "codex_bin")
            IN IF ~path.ok THEN Refused(path.text)
               ELSE Extracted([NoArgs EXCEPT !.path = SomeS(path.text),
                                             !.codex_bin = codex_bin])
      [] method \in {"connect_workspace", "remove_workspace"} ->
            LET id == parse_string(params, "id")
            IN IF ~id.ok THEN Refused(id.text)
               ELSE Extracted([NoArgs EXCEPT !.id = SomeS(id.text)])
      [] method = "update_app_settings" ->
            LET settings_value == IF get(params, "settings").t = "absent" THEN JNull
                                  ELSE get(params, "settings")
                settings == from_value(settings_value)
            IN IF ~settings.ok THEN Refused(settings.text)
               ELSE Extracted([NoArgs EXCEPT !.settings = SomeS(settings.text)])
      [] OTHER -> Refused("unknown method: " \o method)

\* a workspace id is a string: the ids of the model as strings, any other
\* string is the id of no workspace
IdOf(s) == CASE s = "1" -> 1 [] s = "2" -> 2 [] s = "3" -> 3 [] OTHER -> 0

\* a path string as its components
PathOf(s) == IF s = "./repo" THEN <<".", "repo">> ELSE <<s>>

(* -------------------------- registry values --------------------------- *)
\* a path is its sequence of components
InputPaths == {<<"repo">>, <<".", "repo">>}

\* a mutation of normalize_path: the path is stored as given
path_as_given(p) == p

normalize_path(p) == SelectSeq(p, LAMBDA c : c # ".")

WorkspaceEntry(path, kind, parent) == [path |-> path, kind |-> kind, parent |-> parent]

\* the workspace the storage file holds when the daemon starts
StoredId == 1
StoredEntry == WorkspaceEntry(<<"stored">>, "main", 0)

\* a map with one more key, and with one key less
Insert(m, k, v) == [x \in DOMAIN m \cup {k} |-> IF x = k THEN v ELSE m[x]]
Remove(m, k) == [x \in DOMAIN m \ {k} |-> m[x]]
EmptyMap == [x \in {} |-> 0]

\* the operations in flight: one caller is one dispatched request
Callers == {"p", "q"}
AddOps == {"add_workspace", "add_worktree", "add_clone"}
RemoveOps == {"remove_workspace", "remove_worktree"}
NoCall ==
    [op |-> "none", at |-> "idle", id |-> 0, path |-> <<>>, kind |-> "", parent |-> 0,
     pid |-> 0, res |-> Ok(""), listed |-> {}, before |-> <<>>, had_session |-> FALSE,
     method |-> "", params |-> JAbsent]

(* --------------------------- listen address --------------------------- *)
\* A host is its sequence of characters: a space, a colon, "i" for an IP
\* literal (100.100.100.1, [fd7a:115c:a1e0::1]), a letter, and digits.
Chars == {" ", ":", "i", "a", "6", "9"}
Digits == {"6", "9"}
DigitValue(c) == IF c = "6" THEN 6 ELSE 9
U16_MAX == 65535
DEFAULT_PORT == 4732

RECURSIVE Value(_)
\* the number a string of digits writes
Value(s) == IF s = <<>> THEN 0 ELSE 10 * Value(SubSeq(s, 1, Len(s) - 1)) + DigitValue(s[Len(s)])

\* str::parse::<u16>: Some(number), or None for an empty string, a
\* character that is no digit, or a number above u16::MAX
parse_u16(s) ==
    IF s # <<>> /\ (\A i \in 1..Len(s) : s[i] \in Digits) /\ Value(s) <= U16_MAX
    THEN SomeN(Value(s)) ELSE None

RECURSIVE trim_start(_)
trim_start(s) == IF s # <<>> /\ Head(s) = " " THEN trim_start(Tail(s)) ELSE s
RECURSIVE trim_end(_)
trim_end(s) ==
    IF s # <<>> /\ s[Len(s)] = " " THEN trim_end(SubSeq(s, 1, Len(s) - 1)) ELSE s
\* str::trim on a sequence of characters
trim_chars(s) == trim_end(trim_start(s))

\* str::parse::<SocketAddr>: an IP literal, a colon and a port
parse_socket_addr(s) ==
    IF Len(s) >= 3 /\ s[1] = "i" /\ s[2] = ":" THEN parse_u16(SubSeq(s, 3, Len(s)))
    ELSE None

\* the places of the colons of s
Colons(s) == {i \in 1..Len(s) : s[i] = ":"}
Largest(S) == CHOOSE x \in S : \A y \in S : y <= x
Smallest(S) == CHOOSE x \in S : \A y \in S : x <= y

\* str::split_once(':'): what follows the first colon
after_first_colon(s) ==
    IF Colons(s) = {} THEN None
    ELSE [some |-> TRUE, n |-> 0, s |-> SubSeq(s, Smallest(Colons(s)) + 1, Len(s))]

\* str::rsplit_once(':'): what follows the last colon
rsplit_once(s) ==
    IF Colons(s) = {} THEN None
    ELSE [some |-> TRUE, n |-> 0, s |-> SubSeq(s, Largest(Colons(s)) + 1, Len(s))]

parse_port_from_remote_host(remote_host) ==
    LET trimmed == trim_chars(remote_host)
    IN IF trimmed = <<>> THEN None
       ELSE IF parse_socket_addr(trimmed).some THEN parse_socket_addr(trimmed)
       ELSE IF rsplit_once(trimmed).some THEN parse_u16(rsplit_once(trimmed).s)
       ELSE None

\* format!("0.0.0.0:{port}")
daemon_listen_addr(remote_host) ==
    LET port == parse_port_from_remote_host(remote_host)
    IN "0.0.0.0:" \o ToString(IF port.some THEN port.n ELSE DEFAULT_PORT)

(* ------------------------- the desktop's daemon ----------------------- *)
\* TcpDaemonStatus
Status(state, pid, started_at_ms, last_error, listen_addr) ==
    [state |-> state, pid |-> pid, started_at_ms |-> started_at_ms,
     last_error |-> last_error, listen_addr |-> listen_addr]

\* a sync that overwrites the address of a running daemon too
sync_always(status, configured_listen_addr) ==
    [status EXCEPT !.listen_addr = SomeS(configured_listen_addr)]

sync_tcp_daemon_listen_addr(status, configured_listen_addr) ==
    IF status.state = "Running" /\ status.listen_addr.some THEN status
    ELSE [status EXCEPT !.listen_addr = SomeS(configured_listen_addr)]

\* a child process: "running", or how it ended: "exited" (status 0),
\* "failed" (another status), or "gone" for a process that ended and can no
\* longer be waited for; "reaped" once the app has waited for it
Ended == {"exited", "failed", "gone"}

\* a try_wait that finds every child exited
try_wait_exited(process) == "exited"

\* Child::try_wait: Ok(None) ("running"), Ok(Some(status)) or Err ("gone")
try_wait(process) == IF process = "reaped" THEN "gone" ELSE process

\* TcpDaemonRuntime: the handle of the child (0: None) and the status
Runtime(child, status) == [child |-> child, status |-> status]

\* a refresh that drops the handle of a child that has ended and keeps the
\* status
refresh_keeps_status(runtime, children) ==
    IF runtime.child # 0 /\ children[runtime.child] # "running"
    THEN Runtime(0, runtime.status) ELSE runtime

\* refresh_tcp_daemon_runtime, children being the processes spawned so far
refresh_tcp_daemon_runtime(runtime, children) ==
    IF runtime.child = 0
    THEN Runtime(0, [runtime.status EXCEPT !.state = "Stopped", !.pid = None])
    ELSE LET found == try_wait(children[runtime.child])
             old == runtime.status
         IN CASE found = "running" ->
                    Runtime(runtime.child,
                            [old EXCEPT !.state = "Running", !.pid = SomeN(runtime.child),
                                        !.last_error = None])
              [] found = "exited" ->
                    Runtime(0, Status("Stopped", None, None, None, old.listen_addr))
              [] found = "failed" ->
                    Runtime(0, Status("Error", None, old.started_at_ms,
                                      SomeS("Daemon exited with status"), old.listen_addr))
              [] OTHER ->
                    Runtime(runtime.child,
                            Status("Error", SomeN(runtime.child), old.started_at_ms,
                                   SomeS("Failed to inspect daemon process"), old.listen_addr))

\* a command of the desktop app that is not called, and the app at its start
NoCmd == [op |-> "none", at |-> "idle", token |-> "", listen_addr |-> "",
          ok |-> TRUE, err |-> ""]
NoApp ==
    [settings |-> [remote_backend_token |-> None, remote_backend_host |-> <<>>],
     tcp_daemon |-> Runtime(0, Status("Stopped", None, None, None, None)),
     children |-> <<>>,
     cmds |-> [s \in Callers |-> NoCmd]]

(* ------------------------------ state --------------------------------- *)
(* ------------------------------ startup ------------------------------- *)
\* what an argument or CODEX_MONITOR_DAEMON_TOKEN may be: the flags, a
\* value, and a value of white space
ArgStrings == {"--token", "--insecure-no-auth", "--orbit-url", "--bogus", "x", " "}

\* str::trim
trim(s) == IF s = " " THEN "" ELSE s

\* .map(|value| value.trim().to_string()).filter(|value| !value.is_empty())
filter_non_empty(o) == IF o.some /\ trim(o.s) # "" THEN SomeS(trim(o.s)) ELSE None

\* main before parse_args, with the environment variable and the arguments
Startup(env, args) ==
    [at |-> "start", env |-> env, args |-> args, token |-> None, insecure_no_auth |-> FALSE,
     orbit_url |-> None, token_flag |-> FALSE, orbit_flag |-> FALSE, err |-> "", exit |-> 0]

\* the daemon after its start
Started == [Startup(None, <<>>) EXCEPT !.at = "running"]

VARIABLES
    build,          \* "daemon" (codex_monitor_daemon.rs) or "transport" (transport.rs)
    orbit,          \* config.orbit_url.is_some(): runner mode
    token,          \* config.token: Option<String>
    url_ok,         \* whether build_orbit_ws_url accepts the configured URL
    phase,          \* per connection: "idle", "open", "closed"
    authenticated,  \* per connection: the handler's `authenticated`
    events_task,    \* per connection: the handler's Option<JoinHandle>, 0 = None
    fwd,            \* per connection: the forward_events tasks spawned for it
    out,            \* per connection: what was sent on out_tx, in order
    write_task,     \* per connection: the writer tasks spawned for it, each
                    \* "live", "failed" (it broke on a write error) or "aborted"
    limiter,        \* per connection: available permits of each request_limiter
    tasks,          \* per connection: dispatches not yet finished
    reqs,           \* history, per connection: the lines read that carry an unsigned
                    \* id, the k-th carrying id k, each with `authenticated` as it
                    \* was when the line was read
    published,      \* events sent on the broadcast channel, in order
    pc,             \* run_orbit_mode: "off", "attempt", "connecting", "connected", "sleeping"
    reconnect_delay,\* run_orbit_mode: seconds
    fails,          \* history: consecutive failed attempts since the last success
    waits,          \* history: sleeps begun since reconnect_delay was last set to the base
    connects,       \* history: successful connections so far
    workspaces,     \* DaemonState.workspaces: workspace id -> WorkspaceEntry
    sessions,       \* DaemonState.sessions: workspace id -> the session's subprocess
    spawned,        \* the agent subprocesses spawned so far: workspace id, alive
    calls,          \* per caller: the registry operation it is in and its position
    last_id,        \* workspace ids handed out so far
    added,          \* history: id and input path of each add_workspace that succeeded
    removed,        \* history: ids of each remove_workspace that succeeded
    app_settings,   \* DaemonState.app_settings
    wire,           \* per inbound connection: what its peer sent and the frame being read
    app_state,      \* the desktop app: AppState.app_settings and AppState.tcp_daemon
    startup         \* main and parse_args: the environment, the arguments left,
                    \* parse_args' locals and how far the start has come

vars == <<build, orbit, token, url_ok, phase, authenticated, events_task, fwd, out, write_task,
          limiter,
          tasks, reqs, published, pc, reconnect_delay, fails, waits, connects,
          workspaces, sessions, spawned, calls, last_id, added, removed, app_settings,
          wire, app_state, startup>>

connVars == <<phase, authenticated, events_task, fwd, out, write_task, limiter, tasks>>
runnerVars == <<pc, reconnect_delay, fails, waits, connects>>
configVars == <<build, orbit, token, url_ok, startup, app_settings, wire, app_state>>
regVars == <<workspaces, sessions, spawned, calls, last_id, added, removed>>

\* the runner's outbound connection, and the connections the listener accepts
Runner == "runner"
Inbound == {"c1", "c2"}
Conns == {Runner} \cup Inbound

\* nothing was sent on the connection yet: the logical lines its peer sent,
\* the lines of the frame being read that are still to be handled, the
\* number of frames read and the kind of the last one
NoWire == [lines |-> <<>>, rest |-> <<>>, frames |-> 0, last |-> ""]

\* the daemon after construction
InitDaemon ==
    /\ build \in {"daemon", "transport"}
    /\ orbit \in BOOLEAN
    /\ token \in {None, SomeS(TheToken)}
    /\ url_ok \in (IF orbit THEN BOOLEAN ELSE {TRUE})
    /\ phase = [c \in Conns |-> "idle"]
    /\ authenticated = [c \in Conns |-> FALSE]
    /\ events_task = [c \in Conns |-> 0]
    /\ fwd = [c \in Conns |-> <<>>]
    /\ out = [c \in Conns |-> <<>>]
    /\ write_task = [c \in Conns |-> <<>>]
    /\ limiter = [c \in Conns |-> <<>>]
    /\ tasks = [c \in Conns |-> <<>>]
    /\ reqs = [c \in Conns |-> <<>>]
    /\ published = <<>>
    /\ pc = IF orbit THEN "attempt" ELSE "off"
    /\ reconnect_delay = BASE_DELAY
    /\ fails = 0
    /\ waits = 0
    /\ connects = 0
    /\ workspaces = Insert(EmptyMap, StoredId, StoredEntry)
    /\ sessions = EmptyMap
    /\ spawned = <<>>
    /\ calls = [s \in Callers |-> NoCall]
    /\ last_id = StoredId
    /\ added = {}
    /\ removed = {}
    /\ startup = Started
    /\ app_settings = "default"
    /\ wire = [c \in Inbound |-> NoWire]

\* the daemon, and the desktop app, after construction
Init == InitDaemon /\ app_state = NoApp

(* ----------------------------- helpers -------------------------------- *)
\* the generation of a connection's channel and limiter: the runner makes new
\* ones at every connect, an inbound connection has one
CurGen(c) == IF c = Runner THEN connects ELSE 1

\* the writer task of generation g holds out_rx: the channel is open as long
\* as that task is neither finished nor aborted
WriterLive(c, g) == g \in 1..Len(write_task[c]) /\ write_task[c][g] = "live"

\* out_tx.send(..) succeeds
Writable(c, g) == phase[c] = "open" /\ g = CurGen(c) /\ WriterLive(c, g)

\* out_tx.send(..) of a sender of generation g: it fails, and the failure is
\* ignored, once the connection is closed and its writer task aborted, or
\* once the writer task has ended on a write error
Send(c, g, entries) ==
    IF Writable(c, g) THEN [out EXCEPT ![c] = @ \o entries] ELSE out

\* a writer task that nothing aborts
LeaveWriter(c) == write_task[c]

\* write_task.abort() on the writer task of the connection's current channel
AbortWriter(c) ==
    [i \in 1..Len(write_task[c]) |->
        IF i = CurGen(c) /\ write_task[c][i] = "live" THEN "aborted" ELSE write_task[c][i]]

RemoveAt(s, i) == SubSeq(s, 1, i - 1) \o SubSeq(s, i + 1, Len(s))

\* events the broadcast channel has overwritten
Overwritten == IF Len(published) > BusCapacity THEN Len(published) - BusCapacity ELSE 0

\* the reader loop is inside an awaited handle_rpc_request
Awaiting(c) == \E i \in 1..Len(tasks[c]) : tasks[c][i].awaited

Task(g, st, awaited, id, method, params) ==
    [gen |-> g, st |-> st, awaited |-> awaited, id |-> id, method |-> method,
     params |-> params]

\* operations of limiter g of connection c that hold a permit
InFlight(c, g) ==
    Cardinality({i \in 1..Len(tasks[c]) :
                    tasks[c][i].gen = g /\ tasks[c][i].st = "running" /\ ~tasks[c][i].awaited})

Min(a, b) == IF a < b THEN a ELSE b

\* the requests of one connection that may be unfinished at once
MaxTasks == MAX_IN_FLIGHT_RPC_PER_CONNECTION + 1

\* the bounds on what a peer sends: ids up to MaxIds, no line without an id
\* while a request without an id is unfinished, and no new line while
\* MaxTasks requests of the connection are unfinished
Admit(c, line) ==
    /\ line.id.t = "uint" => Len(reqs[c]) < MaxIds
    /\ line.id.t # "uint" => \A i \in 1..Len(tasks[c]) : tasks[c][i].id.some
    /\ Len(tasks[c]) < MaxTasks

\* the history after connection c has read `line`
Noted(c, line) ==
    IF line.id.t = "uint"
    THEN [reqs EXCEPT ![c] = Append(@, [line |-> line, was |-> authenticated[c]])]
    ELSE reqs

(* ----------------------------- event bus ------------------------------ *)
\* a bus that makes its publisher wait while a live forwarding task still has
\* the oldest buffered event to read
PublishWhenRoom(kind) ==
    /\ Len(published) < MaxEvents
    /\ \A c \in Conns : \A i \in 1..Len(fwd[c]) :
           fwd[c][i].live => Len(published) - fwd[c][i].pos < BusCapacity
    /\ published' = Append(published, [kind |-> kind, seq |-> Len(published) + 1])
    /\ UNCHANGED <<configVars, regVars, connVars, reqs, runnerVars>>

\* DaemonEventSink::emit_*: tx.send(event), its result ignored
Publish(kind) ==
    /\ Len(published) < MaxEvents
    /\ published' = Append(published, [kind |-> kind, seq |-> Len(published) + 1])
    /\ UNCHANGED <<configVars, regVars, connVars, reqs, runnerVars>>

\* events.subscribe() and tokio::spawn(forward_events(rx, out_tx.clone())):
\* the new task's record; a new receiver sees only later events
\* (`from` and `lagged_at` are history: where the receiver began, and how many
\* events were published when it last got RecvError::Lagged, 0 for never)
NewForwarder(c, g) ==
    [pos |-> Len(published), live |-> TRUE, gen |-> g, from |-> Len(published),
     lagged_at |-> 0]

\* a limiter with one permit too many, and one with one too few
NewLimiterOneMore == MAX_IN_FLIGHT_RPC_PER_CONNECTION + 1
NewLimiterOneLess == MAX_IN_FLIGHT_RPC_PER_CONNECTION - 1

\* Semaphore::new(MAX_IN_FLIGHT_RPC_PER_CONNECTION)
NewLimiter == MAX_IN_FLIGHT_RPC_PER_CONNECTION

\* a forwarding task that sends the event it is at and stays there
forward_events_again(c, i) ==
    /\ i \in 1..Len(fwd[c])
    /\ fwd[c][i].live
    /\ fwd[c][i].pos < Len(published)
    /\ phase[c] = "open"
    /\ out' = Send(c, fwd[c][i].gen, build_event_notification(published[fwd[c][i].pos + 1]))
    /\ UNCHANGED <<configVars, regVars, write_task, phase, authenticated, events_task, fwd, limiter,
                   tasks, reqs, published, runnerVars>>

\* a forwarding task that takes RecvError::Lagged for the end of the bus
forward_events_ends_on_lag(c, i) ==
    /\ i \in 1..Len(fwd[c])
    /\ fwd[c][i].live
    /\ LET t == fwd[c][i] IN
       IF t.pos < Overwritten
       THEN /\ fwd' = [fwd EXCEPT ![c][i].live = FALSE]
            /\ UNCHANGED out
       ELSE /\ t.pos < Len(published)
            /\ IF Writable(c, t.gen)
               THEN /\ out' = Send(c, t.gen, build_event_notification(published[t.pos + 1]))
                    /\ fwd' = [fwd EXCEPT ![c][i].pos = t.pos + 1]
               ELSE /\ fwd' = [fwd EXCEPT ![c][i].live = FALSE]
                    /\ UNCHANGED out
    /\ UNCHANGED <<configVars, regVars, write_task, phase, authenticated, events_task, limiter, tasks,
                   reqs, published, runnerVars>>

\* a forwarding that takes its turn only between the requests of its
\* connection, as a handler would that forwards events from its read loop
forward_events_between_requests(c, i) ==
    /\ tasks[c] = <<>>
    /\ i \in 1..Len(fwd[c])
    /\ fwd[c][i].live
    /\ LET t == fwd[c][i] IN
       IF t.pos < Overwritten
       THEN /\ fwd' = [fwd EXCEPT ![c][i] = [@ EXCEPT !.pos = Overwritten,
                                                    !.lagged_at = Len(published)]]
            /\ UNCHANGED out
       ELSE /\ t.pos < Len(published)
            /\ IF Writable(c, t.gen)
               THEN /\ out' = Send(c, t.gen, build_event_notification(published[t.pos + 1]))
                    /\ fwd' = [fwd EXCEPT ![c][i].pos = t.pos + 1]
               ELSE /\ fwd' = [fwd EXCEPT ![c][i].live = FALSE]
                    /\ UNCHANGED out
    /\ UNCHANGED <<configVars, regVars, write_task, phase, authenticated, events_task, limiter, tasks,
                   reqs, published, runnerVars>>

\* one turn of forward_events' loop in task i of connection c
forward_events(c, i) ==
    /\ i \in 1..Len(fwd[c])
    /\ fwd[c][i].live
    /\ LET t == fwd[c][i] IN
       IF t.pos < Overwritten
       THEN \* RecvError::Lagged: continue from the oldest event still held
            /\ fwd' = [fwd EXCEPT ![c][i] = [@ EXCEPT !.pos = Overwritten,
                                                    !.lagged_at = Len(published)]]
            /\ UNCHANGED out
       ELSE /\ t.pos < Len(published)
            /\ IF Writable(c, t.gen)
               THEN /\ out' = Send(c, t.gen, build_event_notification(published[t.pos + 1]))
                    /\ fwd' = [fwd EXCEPT ![c][i].pos = t.pos + 1]
               ELSE \* out_tx_events.send(payload).is_err(): break
                    /\ fwd' = [fwd EXCEPT ![c][i].live = FALSE]
                    /\ UNCHANGED out
    /\ UNCHANGED <<configVars, regVars, write_task, phase, authenticated, events_task, limiter, tasks,
                   reqs, published, runnerVars>>

(* ------------------------ inbound connections ------------------------- *)
\* handle_client up to its read loop
Accept(c) ==
    /\ ~orbit
    /\ c \in Inbound
    /\ phase[c] = "idle"
    /\ phase' = [phase EXCEPT ![c] = "open"]
    /\ authenticated' = [authenticated EXCEPT ![c] = ~token.some]
    /\ limiter' = [limiter EXCEPT ![c] = IF build = "transport" THEN <<NewLimiter>> ELSE <<>>]
    /\ IF ~token.some
       THEN /\ fwd' = [fwd EXCEPT ![c] = Append(@, NewForwarder(c, 1))]
            /\ events_task' = [events_task EXCEPT ![c] = Len(fwd[c]) + 1]
       ELSE UNCHANGED <<fwd, events_task>>
    /\ write_task' = [write_task EXCEPT ![c] = <<"live">>]
    /\ UNCHANGED <<configVars, regVars, out, tasks, reqs, published, runnerVars>>

\* a gate that sends every `auth` to the authentication branch
AuthGateEveryAuth(auth, method) == ~auth \/ method = "auth"

\* a gate that is shut for every line
AuthGateShut(auth, method) == TRUE

\* whether a line goes to the authentication branch: `if !authenticated`
AuthGate(auth, method) == ~auth

\* rpc::spawn_rpc_response_task: a task that waits for a permit of the
\* connection's limiter, runs the request and sends the response
spawn_rpc_response_task(c, id, method, params) ==
    tasks' = [tasks EXCEPT ![c] =
                Append(@, Task(CurGen(c), "waiting", FALSE, id, method, params))]

\* a handler that takes `auth` at any time and lets a wrong token end the
\* authentication of the connection
handle_rpc_json_message_reauth(c, message) ==
    LET id == as_u64(message.id)
        method == method_of(message.method)
        params == params_of(message.params)
    IN IF method = ""
       THEN UNCHANGED <<authenticated, events_task, fwd, out, tasks>>
       ELSE IF method = "auth"
       THEN IF unwrap_or_default(token) # unwrap_or_default(parse_auth_token(params))
            THEN /\ authenticated' = [authenticated EXCEPT ![c] = FALSE]
                 /\ out' = Send(c, 1, build_error_response(id, "invalid token"))
                 /\ UNCHANGED <<events_task, fwd, tasks>>
            ELSE /\ authenticated' = [authenticated EXCEPT ![c] = TRUE]
                 /\ out' = Send(c, 1, build_result_response(id, OkTrue))
                 /\ UNCHANGED <<events_task, fwd, tasks>>
       ELSE IF ~authenticated[c]
       THEN /\ out' = Send(c, 1, build_error_response(id, "unauthorized"))
            /\ UNCHANGED <<authenticated, events_task, fwd, tasks>>
       ELSE /\ spawn_rpc_response_task(c, id, method, params)
            /\ UNCHANGED <<authenticated, events_task, fwd, out>>

\* transport.rs handle_rpc_json_message
handle_rpc_json_message(c, message) ==
    LET id == as_u64(message.id)
        method == method_of(message.method)
        params == params_of(message.params)
    IN IF method = ""
       THEN UNCHANGED <<authenticated, events_task, fwd, out, tasks>>
       ELSE IF AuthGate(authenticated[c], method)
       THEN IF method # "auth"
            THEN /\ out' = Send(c, 1, build_error_response(id, "unauthorized"))
                 /\ UNCHANGED <<authenticated, events_task, fwd, tasks>>
            ELSE IF unwrap_or_default(token) # unwrap_or_default(parse_auth_token(params))
            THEN /\ out' = Send(c, 1, build_error_response(id, "invalid token"))
                 /\ UNCHANGED <<authenticated, events_task, fwd, tasks>>
            ELSE /\ authenticated' = [authenticated EXCEPT ![c] = TRUE]
                 /\ out' = Send(c, 1, build_result_response(id, OkTrue))
                 /\ IF events_task[c] = 0
                    THEN /\ fwd' = [fwd EXCEPT ![c] = Append(@, NewForwarder(c, 1))]
                         /\ events_task' = [events_task EXCEPT ![c] = Len(fwd[c]) + 1]
                    ELSE UNCHANGED <<fwd, events_task>>
                 /\ UNCHANGED tasks
       ELSE /\ spawn_rpc_response_task(c, id, method, params)
            /\ UNCHANGED <<authenticated, events_task, fwd, out>>

\* transport.rs handle_rpc_line
handle_rpc_line(c, line) ==
    IF line.line # "json"
    THEN UNCHANGED <<authenticated, events_task, fwd, out, tasks>>
    ELSE handle_rpc_json_message(c, line)

\* codex_monitor_daemon.rs handle_client: one turn of the read loop, up to
\* the awaited handle_rpc_request
daemon_handle_line(c, line) ==
    LET id == as_u64(line.id)
        method == method_of(line.method)
        params == params_of(line.params)
    IN IF line.line # "json"
       THEN UNCHANGED <<authenticated, events_task, fwd, out, tasks>>
       ELSE IF AuthGate(authenticated[c], method)
       THEN IF method # "auth"
            THEN /\ out' = Send(c, 1, build_error_response(id, "unauthorized"))
                 /\ UNCHANGED <<authenticated, events_task, fwd, tasks>>
            ELSE IF unwrap_or_default(token) # unwrap_or_default(parse_auth_token(params))
            THEN /\ out' = Send(c, 1, build_error_response(id, "invalid token"))
                 /\ UNCHANGED <<authenticated, events_task, fwd, tasks>>
            ELSE /\ authenticated' = [authenticated EXCEPT ![c] = TRUE]
                 /\ out' = Send(c, 1, build_result_response(id, OkTrue))
                 /\ fwd' = [fwd EXCEPT ![c] = Append(@, NewForwarder(c, 1))]
                 /\ events_task' = [events_task EXCEPT ![c] = Len(fwd[c]) + 1]
                 /\ UNCHANGED tasks
       ELSE /\ tasks' = [tasks EXCEPT ![c] =
                           Append(@, Task(1, "running", TRUE, id, method, params))]
            /\ UNCHANGED <<authenticated, events_task, fwd, out>>

\* the body of a handler's read loop for one line
OnLine(c, line) ==
    /\ ~orbit
    /\ c \in Inbound
    /\ phase[c] = "open"
    /\ ~Awaiting(c)
    /\ line.id.t = "uint" => line.id.n = Len(reqs[c]) + 1
    /\ Admit(c, line)
    /\ reqs' = Noted(c, line)
    /\ IF build = "transport" THEN handle_rpc_line(c, line) ELSE daemon_handle_line(c, line)
    /\ UNCHANGED <<regVars, write_task, phase, limiter, published, runnerVars>>

\* lines.next_line().await returns a line
ReadLine(c, line) == OnLine(c, line) /\ UNCHANGED configVars

\* handle_client reads a line, the line being noted as sent by the peer
TcpLine(c, line) ==
    /\ Len(wire[c].lines) < MaxLines
    /\ OnLine(c, line)
    /\ wire' = [wire EXCEPT ![c].lines = Append(@, line)]
    /\ UNCHANGED <<app_state, build, orbit, token, url_ok, startup, app_settings>>

\* a WebSocket frame: its kind, and the lines of its payload
Frame(kind, lines) == [kind |-> kind, lines |-> lines]
FrameKinds == {"text", "binary", "invalid", "ping", "pong", "frame", "close", "error"}

\* the logical lines a frame carries: those of a text frame and of a binary
\* frame that is valid UTF-8
logical_lines(frame) == IF frame.kind \in {"text", "binary"} THEN frame.lines ELSE <<>>

\* a reading of binary frames with String::from_utf8_lossy
lines_of_lossy(frame) == frame.lines

\* the lines handle_ws_client hands to handle_rpc_line for a frame:
\* text.lines() of Message::Text, and of Message::Binary if
\* String::from_utf8 accepts the bytes
lines_of(frame) == IF frame.kind \in {"text", "binary"} THEN frame.lines ELSE <<>>

\* tokio_tungstenite::accept_async fails: handle_ws_client returns
HandshakeFails(c) ==
    /\ ~orbit
    /\ build = "transport"
    /\ c \in Inbound
    /\ phase[c] = "idle"
    /\ phase' = [phase EXCEPT ![c] = "closed"]
    /\ UNCHANGED <<configVars, regVars, authenticated, events_task, fwd, out, write_task,
                   limiter, tasks, reqs, published, runnerVars>>

\* handle_ws_client after the handshake
WsAccept(c) == build = "transport" /\ Accept(c)

\* reader.next().await returns a frame that does not end the loop
WsFrame(c, frame) ==
    /\ ~orbit
    /\ build = "transport"
    /\ c \in Inbound
    /\ phase[c] = "open"
    /\ wire[c].rest = <<>>
    /\ wire[c].frames < MaxFrames
    /\ frame.kind \notin {"close", "error"}
    /\ Len(wire[c].lines) + Len(frame.lines) <= MaxLines
    /\ wire' = [wire EXCEPT ![c] = [lines |-> wire[c].lines \o logical_lines(frame),
                                    rest |-> lines_of(frame),
                                    frames |-> wire[c].frames + 1,
                                    last |-> frame.kind]]
    /\ UNCHANGED <<app_state, build, orbit, token, url_ok, startup, app_settings, regVars, connVars, reqs,
                   published, runnerVars>>

\* the next turn of `for line in text.lines()`
WsLine(c) ==
    /\ build = "transport"
    /\ wire[c].rest # <<>>
    /\ OnLine(c, Head(wire[c].rest))
    /\ wire' = [wire EXCEPT ![c].rest = Tail(@)]
    /\ UNCHANGED <<app_state, build, orbit, token, url_ok, startup, app_settings>>

\* a response that carries the id after the request's
response_of_next_id(t) ==
    LET result == handle_rpc_request(t.method, t.params)
        id == IF t.id.some THEN SomeN(t.id.n + 1) ELSE t.id
    IN IF result.ok THEN build_result_response(id, result.text)
       ELSE build_error_response(id, result.text)

\* the response of a finished request
response_of(t) ==
    LET result == handle_rpc_request(t.method, t.params)
    IN IF result.ok THEN build_result_response(t.id, result.text)
       ELSE build_error_response(t.id, result.text)

\* the awaited handle_rpc_request of the single-file daemon returns: the
\* response is built and sent, and the loop reads on
InlineFinish(c) ==
    /\ build = "daemon"
    /\ \E i \in 1..Len(tasks[c]) :
        /\ tasks[c][i].awaited
        /\ out' = Send(c, tasks[c][i].gen, response_of(tasks[c][i]))
        /\ tasks' = [tasks EXCEPT ![c] = RemoveAt(@, i)]
    /\ UNCHANGED <<configVars, regVars, write_task, phase, authenticated, events_task, fwd, limiter,
                   reqs, published, runnerVars>>

\* one limiter made by the listener and given to every inbound connection
listener_limiter(c) == IF c \in Inbound THEN "c1" ELSE c

\* the connection whose handler made the request_limiter that the requests
\* of connection c are given: its own
request_limiter(c) == c

\* a spawned request takes a permit; the semaphore serves its waiters in order
TaskStart(c, i) ==
    /\ i \in 1..Len(tasks[c])
    /\ LET t == tasks[c][i] IN
        /\ t.st = "waiting"
        /\ \A j \in 1..(i - 1) : ~(tasks[c][j].gen = t.gen /\ tasks[c][j].st = "waiting")
        /\ t.gen \in 1..Len(limiter[request_limiter(c)])
        /\ limiter[request_limiter(c)][t.gen] > 0
        /\ limiter' = [limiter EXCEPT ![request_limiter(c)][t.gen] = @ - 1]
        /\ tasks' = [tasks EXCEPT ![c][i].st = "running"]
    /\ UNCHANGED <<configVars, regVars, write_task, phase, authenticated, events_task, fwd, out,
                   reqs, published, runnerVars>>

\* a spawned request finishes: the response is sent and the permit dropped
TaskFinish(c, i) ==
    /\ i \in 1..Len(tasks[c])
    /\ LET t == tasks[c][i] IN
        /\ t.st = "running"
        /\ ~t.awaited
        /\ out' = Send(c, t.gen, response_of(t))
        /\ limiter' = [limiter EXCEPT ![request_limiter(c)][t.gen] = @ + 1]
        /\ tasks' = [tasks EXCEPT ![c] = RemoveAt(@, i)]
    /\ UNCHANGED <<configVars, regVars, write_task, phase, authenticated, events_task, fwd,
                   reqs, published, runnerVars>>

\* the forwarding tasks after events_task.abort()
AbortForwarder(c) ==
    IF events_task[c] = 0 THEN fwd[c]
    ELSE [fwd[c] EXCEPT ![events_task[c]].live = FALSE]

\* the read loop ends (EOF or a read error): drop(out_tx), abort the tasks
Close(c) ==
    /\ ~orbit
    /\ c \in Inbound
    /\ phase[c] = "open"
    /\ ~Awaiting(c)
    /\ phase' = [phase EXCEPT ![c] = "closed"]
    /\ fwd' = [fwd EXCEPT ![c] = AbortForwarder(c)]
    /\ write_task' = [write_task EXCEPT ![c] = AbortWriter(c)]
    /\ UNCHANGED <<configVars, regVars, authenticated, events_task, out, limiter, tasks,
                   reqs, published, runnerVars>>

\* Message::Close or a read error between two frames: break
WsClose(c, kind) ==
    /\ build = "transport"
    /\ kind \in {"close", "error"}
    /\ wire[c].rest = <<>>
    /\ Close(c)

\* the writer task of connection c takes a message from out_rx and the write
\* fails: it breaks out of its loop and ends, out_rx is dropped with it; the
\* read loop of the connection is not told
WriteFails(c) ==
    /\ phase[c] = "open"
    /\ WriterLive(c, CurGen(c))
    /\ Len(out[c]) > 0
    /\ write_task' = [write_task EXCEPT ![c][CurGen(c)] = "failed"]
    /\ UNCHANGED <<configVars, regVars, phase, authenticated, events_task, fwd, out, limiter,
                   tasks, reqs, published, runnerVars>>

(* ------------------------------ startup ------------------------------- *)
\* parse_args returns Err(message)
ParseErr(message) == [startup EXCEPT !.at = "err", !.err = message]

\* parse_args up to its loop: the token of the environment
ParseEnv ==
    /\ startup.at = "start"
    /\ startup' = [startup EXCEPT !.at = "loop", !.token = filter_non_empty(startup.env)]
    /\ UNCHANGED <<app_state, build, orbit, token, url_ok, app_settings, wire, regVars, connVars, reqs, published,
                   runnerVars>>

\* one turn of parse_args' loop
ParseArg ==
    /\ startup.at = "loop"
    /\ startup.args # <<>>
    /\ LET arg == Head(startup.args)
           rest == Tail(startup.args)
       IN startup' =
            CASE arg = "--token" ->
                    IF rest = <<>> THEN ParseErr("--token requires a value")
                    ELSE IF trim(Head(rest)) = ""
                    THEN ParseErr("--token requires a non-empty value")
                    ELSE [startup EXCEPT !.args = Tail(rest), !.token = SomeS(trim(Head(rest))),
                                         !.token_flag = TRUE]
              [] arg = "--insecure-no-auth" ->
                    [startup EXCEPT !.args = rest, !.insecure_no_auth = TRUE, !.token = None]
              [] arg = "--orbit-url" ->
                    IF rest = <<>> THEN ParseErr("--orbit-url requires a value")
                    ELSE IF trim(Head(rest)) = ""
                    THEN ParseErr("--orbit-url requires a non-empty value")
                    ELSE [startup EXCEPT !.args = Tail(rest),
                                         !.orbit_url = SomeS(trim(Head(rest))),
                                         !.orbit_flag = TRUE]
              [] OTHER -> ParseErr("Unknown argument")
    /\ UNCHANGED <<app_state, build, orbit, token, url_ok, app_settings, wire, regVars, connVars, reqs, published,
                   runnerVars>>

\* parse_args after its loop
ParseEnd ==
    /\ startup.at = "loop"
    /\ startup.args = <<>>
    /\ startup' =
          IF ~startup.orbit_url.some /\ ~startup.token.some /\ ~startup.insecure_no_auth
          THEN ParseErr("Missing --token")
          ELSE [startup EXCEPT !.at = "ok"]
    /\ UNCHANGED <<app_state, build, orbit, token, url_ok, app_settings, wire, regVars, connVars, reqs, published,
                   runnerVars>>

\* main: Err(err) => eprintln, std::process::exit(2)
MainExit ==
    /\ startup.at = "err"
    /\ startup' = [startup EXCEPT !.at = "exited", !.exit = 2]
    /\ UNCHANGED <<app_state, build, orbit, token, url_ok, app_settings, wire, regVars, connVars, reqs, published,
                   runnerVars>>

\* main: Ok(config) => the daemon runs with that configuration
MainRuns ==
    /\ startup.at = "ok"
    /\ startup' = [startup EXCEPT !.at = "running"]
    /\ UNCHANGED <<app_state, build, orbit, token, url_ok, app_settings, wire, regVars, connVars, reqs, published,
                   runnerVars>>

(* ------------------------------ runner -------------------------------- *)
\* a doubling with no ceiling
next_delay_unbounded(d) == d * 2

\* (reconnect_delay * 2).min(Duration::from_secs(20))
next_delay(d) == Min(d * 2, MAX_DELAY)

\* the history counters saturate
Bump(n) == Min(n + 1, MaxFailures)

\* build_orbit_ws_url(..) is Err: sleep(reconnect_delay)
BuildUrlFails ==
    /\ pc = "attempt"
    /\ ~url_ok
    /\ pc' = "sleeping"
    /\ fails' = Bump(fails)
    /\ waits' = Bump(waits)
    /\ UNCHANGED <<configVars, regVars, connVars, reqs, published,
                   reconnect_delay, connects>>

\* build_orbit_ws_url(..) is Ok: connect_async(&ws_url)
BuildUrlOk ==
    /\ pc = "attempt"
    /\ url_ok
    /\ pc' = "connecting"
    /\ UNCHANGED <<configVars, regVars, connVars, reqs, published,
                   reconnect_delay, fails, waits, connects>>

\* connect_async(..) is Err: sleep(reconnect_delay)
ConnectFails ==
    /\ pc = "connecting"
    /\ pc' = "sleeping"
    /\ fails' = Bump(fails)
    /\ waits' = Bump(waits)
    /\ UNCHANGED <<configVars, regVars, connVars, reqs, published,
                   reconnect_delay, connects>>

\* a connect that leaves the delay as it had grown
delay_kept(d) == d

\* the delay after a successful connect_async
delay_on_connect(d) == BASE_DELAY

\* connect_async(..) is Ok: the delay is reset, the writer and the forwarding
\* task are spawned, the hello frame is queued and a new limiter made
ConnectWithin(limit) ==
    /\ pc = "connecting"
    /\ connects < limit
    /\ pc' = "connected"
    /\ reconnect_delay' = delay_on_connect(reconnect_delay)
    /\ fails' = 0
    /\ waits' = 0
    /\ connects' = connects + 1
    /\ phase' = [phase EXCEPT ![Runner] = "open"]
    /\ out' = [out EXCEPT ![Runner] = <<Hello>>]
    /\ fwd' = [fwd EXCEPT ![Runner] = Append(@, NewForwarder(Runner, connects + 1))]
    /\ events_task' = [events_task EXCEPT ![Runner] = Len(fwd[Runner]) + 1]
    /\ limiter' = [limiter EXCEPT ![Runner] =
                     IF build = "transport" THEN Append(@, NewLimiter) ELSE Append(@, 0)]
    /\ reqs' = [reqs EXCEPT ![Runner] = <<>>]
    /\ write_task' = [write_task EXCEPT ![Runner] = Append(@, "live")]
    /\ UNCHANGED <<configVars, regVars, authenticated, tasks, published>>

ConnectOk == ConnectWithin(MaxConnects)

\* transport.rs handle_orbit_line
handle_orbit_line(line) ==
    LET id == as_u64(line.id)
        method == method_of(line.method)
        params == params_of(line.params)
        message_type == type_of(line.type)
    IN IF line.line # "json"
       THEN UNCHANGED <<out, tasks>>
       ELSE IF message_type.some
       THEN /\ out' = IF eq_ignore_ascii_case(message_type.s, "ping")
                      THEN Send(Runner, connects, <<Pong>>) ELSE out
            /\ UNCHANGED tasks
       ELSE IF method = ""
       THEN UNCHANGED <<out, tasks>>
       ELSE IF method = "auth"
       THEN /\ out' = Send(Runner, connects, build_result_response(id, OkTrue))
            /\ UNCHANGED tasks
       ELSE /\ spawn_rpc_response_task(Runner, id, method, params)
            /\ UNCHANGED out

\* codex_monitor_daemon.rs handle_orbit_line, up to the awaited
\* handle_rpc_request
daemon_handle_orbit_line(line) ==
    LET id == as_u64(line.id)
        method == method_of(line.method)
        params == params_of(line.params)
        message_type == type_of(line.type)
    IN IF line.line # "json"
       THEN UNCHANGED <<out, tasks>>
       ELSE IF message_type.some
       THEN /\ out' = IF eq_ignore_ascii_case(message_type.s, "ping")
                      THEN Send(Runner, connects, <<Pong>>) ELSE out
            /\ UNCHANGED tasks
       ELSE IF method = ""
       THEN UNCHANGED <<out, tasks>>
       ELSE IF method = "auth"
       THEN /\ out' = Send(Runner, connects, build_result_response(id, OkTrue))
            /\ UNCHANGED tasks
       ELSE /\ tasks' = [tasks EXCEPT ![Runner] =
                           Append(@, Task(connects, "running", TRUE, id, method, params))]
            /\ UNCHANGED out

\* reader.next().await returns a text or binary frame holding one line
OrbitLine(line) ==
    /\ pc = "connected"
    /\ ~Awaiting(Runner)
    /\ line.id.t = "uint" => line.id.n = Len(reqs[Runner]) + 1
    /\ Admit(Runner, line)
    /\ reqs' = Noted(Runner, line)
    /\ IF build = "transport" THEN handle_orbit_line(line) ELSE daemon_handle_orbit_line(line)
    /\ UNCHANGED <<configVars, regVars, write_task, phase, authenticated, events_task, fwd, limiter,
                   published, runnerVars>>

\* a close frame, a stream error or the end of the stream: drop(out_tx), abort
\* the tasks (the channel and what it still holds are gone),
\* sleep(reconnect_delay)
Disconnect ==
    /\ pc = "connected"
    /\ ~Awaiting(Runner)
    /\ pc' = "sleeping"
    /\ waits' = Bump(waits)
    /\ phase' = [phase EXCEPT ![Runner] = "closed"]
    /\ fwd' = [fwd EXCEPT ![Runner] = AbortForwarder(Runner)]
    /\ out' = [out EXCEPT ![Runner] = <<>>]
    /\ write_task' = [write_task EXCEPT ![Runner] = AbortWriter(Runner)]
    /\ UNCHANGED <<configVars, regVars, authenticated, events_task, limiter, tasks,
                   reqs, published, reconnect_delay, fails, connects>>

\* a loop that gives up once the delay has reached the ceiling
WakeOrGiveUp ==
    /\ pc = "sleeping"
    /\ pc' = IF reconnect_delay >= MAX_DELAY THEN "stopped" ELSE "attempt"
    /\ reconnect_delay' = next_delay(reconnect_delay)
    /\ UNCHANGED <<configVars, regVars, connVars, reqs, published,
                   fails, waits, connects>>

\* sleep(reconnect_delay) returns: the delay doubles up to the ceiling and
\* the loop starts over
Wake ==
    /\ pc = "sleeping"
    /\ pc' = "attempt"
    /\ reconnect_delay' = next_delay(reconnect_delay)
    /\ UNCHANGED <<configVars, regVars, connVars, reqs, published,
                   fails, waits, connects>>

(* -------------------------- session registry -------------------------- *)
\* The registry operations of DaemonState delegate to shared/workspaces_core,
\* which is not part of the sources at hand: their steps follow the contract
\* of the session registry (one step per critical section of a map's lock;
\* no lock is held across the spawn of a subprocess).  The check at the head
\* of DaemonState::connect_workspace is in the sources.


\* WorkspaceInfo of every entry of the map
list_workspaces_core == {[id |-> w, path |-> workspaces[w].path] : w \in DOMAIN workspaces}

\* the record of a call that begins: the request it serves is kept
Blank(s) == [NoCall EXCEPT !.method = calls[s].method, !.params = calls[s].params]

Return(s, result) ==
    calls' = [calls EXCEPT ![s] = [@ EXCEPT !.at = "done", !.res = result]]

Goto(s, label) == calls' = [calls EXCEPT ![s].at = label]

\* a caller whose request was answered takes the next request
Forget(s) ==
    /\ calls[s].at = "done"
    /\ calls' = [calls EXCEPT ![s] = NoCall]
    /\ UNCHANGED <<configVars, connVars, runnerVars, reqs, published,
                   workspaces, sessions, spawned, last_id, added, removed>>

\* "list_workspaces"
list_workspaces(s) ==
    /\ calls[s].at = "idle"
    /\ calls' = [calls EXCEPT ![s] = [Blank(s) EXCEPT !.op = "list_workspaces", !.at = "done",
                                                    !.listed = list_workspaces_core]]
    /\ UNCHANGED <<configVars, connVars, runnerVars, reqs, published,
                   workspaces, sessions, spawned, last_id, added, removed>>

\* "add_workspace", "add_worktree" (of parent), "add_clone" (of source): the
\* call begins; a path that is no folder, or a parent that is no workspace,
\* is refused before anything is written
AddBegin(s, op, path, is_dir, parent) ==
    /\ calls[s].at = "idle"
    /\ last_id < MaxWorkspaces
    /\ LET kind == CASE op = "add_workspace" -> "main"
                     [] op = "add_worktree" -> "worktree"
                     [] op = "add_clone" -> "clone"
           call == [Blank(s) EXCEPT !.op = op, !.path = path, !.kind = kind,
                                  !.parent = IF op = "add_workspace" THEN 0 ELSE parent,
                                  !.before = <<workspaces, sessions>>]
       IN  calls' = [calls EXCEPT ![s] =
               IF op = "add_workspace" /\ ~is_dir
               THEN [call EXCEPT !.at = "done", !.res = Err("Workspace path must be a folder.")]
               ELSE IF op # "add_workspace" /\ parent \notin DOMAIN workspaces
               THEN [call EXCEPT !.at = "done", !.res = Err("workspace not found")]
               ELSE [call EXCEPT !.at = "insert"]]
    /\ UNCHANGED <<configVars, connVars, runnerVars, reqs, published,
                   workspaces, sessions, spawned, last_id, added, removed>>

\* the entry is written to the workspace map under a fresh id
AddInsert(s) ==
    /\ calls[s].at = "insert"
    /\ last_id < MaxWorkspaces
    /\ last_id' = last_id + 1
    /\ workspaces' = Insert(workspaces, last_id + 1,
                            WorkspaceEntry(normalize_path(calls[s].path), calls[s].kind,
                                           calls[s].parent))
    /\ calls' = [calls EXCEPT ![s] = [@ EXCEPT !.id = last_id + 1, !.at = "spawn"]]
    /\ UNCHANGED <<configVars, connVars, runnerVars, reqs, published,
                   sessions, spawned, added, removed>>

\* spawn_with_client: the subprocess starts
SpawnOk(s) ==
    /\ calls[s].at = "spawn"
    /\ Len(spawned) < MaxSpawns
    /\ spawned' = Append(spawned, [ws |-> calls[s].id, alive |-> TRUE])
    /\ calls' = [calls EXCEPT ![s] = [@ EXCEPT !.pid = Len(spawned) + 1, !.at = "register"]]
    /\ UNCHANGED <<configVars, connVars, runnerVars, reqs, published,
                   workspaces, sessions, last_id, added, removed>>

\* a mutation of SpawnFailed: the entry of a failed add_workspace is kept
SpawnFailedKeepsEntry(s) ==
    /\ calls[s].at = "spawn"
    /\ Return(s, Err("failed to spawn session"))
    /\ UNCHANGED <<configVars, connVars, runnerVars, reqs, published,
                   workspaces, sessions, spawned, last_id, added, removed>>

\* spawn_with_client fails: an add rolls its insertion back, and the caller
\* gets the spawn error
SpawnFailed(s) ==
    /\ calls[s].at = "spawn"
    /\ Return(s, Err("failed to spawn session"))
    /\ workspaces' = IF calls[s].op \in AddOps THEN Remove(workspaces, calls[s].id)
                     ELSE workspaces
    /\ UNCHANGED <<configVars, connVars, runnerVars, reqs, published,
                   sessions, spawned, last_id, added, removed>>

\* sessions.lock().await.insert(id, session); a session that was in the map
\* is dropped, and its subprocess may or may not outlive it
Register(s, kills) ==
    /\ calls[s].at = "register"
    /\ LET id == calls[s].id
           old == IF id \in DOMAIN sessions THEN sessions[id] ELSE 0
       IN  /\ sessions' = Insert(sessions, id, calls[s].pid)
           /\ spawned' = IF old # 0 /\ kills THEN [spawned EXCEPT ![old].alive = FALSE]
                         ELSE spawned
           /\ old = 0 => kills
    /\ Return(s, Ok("done"))
    /\ added' = IF calls[s].op = "add_workspace"
                THEN added \cup {[id |-> calls[s].id, path |-> calls[s].path]}
                ELSE added
    /\ UNCHANGED <<configVars, connVars, runnerVars, reqs, published,
                   workspaces, last_id, removed>>

\* DaemonState::connect_workspace: a workspace that has a session is connected
ConnectCheck(s, id) ==
    /\ calls[s].at = "idle"
    /\ LET call == [Blank(s) EXCEPT !.op = "connect_workspace", !.id = id,
                                  !.had_session = id \in DOMAIN sessions]
       IN  calls' = [calls EXCEPT ![s] =
               IF id \in DOMAIN sessions
               THEN [call EXCEPT !.at = "done", !.res = Ok("done")]
               ELSE [call EXCEPT !.at = "lookup"]]
    /\ UNCHANGED <<configVars, connVars, runnerVars, reqs, published,
                   workspaces, sessions, spawned, last_id, added, removed>>

\* connect_workspace_core: the entry is read from the workspace map
ConnectLookup(s) ==
    /\ calls[s].at = "lookup"
    /\ IF calls[s].id \in DOMAIN workspaces
       THEN Goto(s, "spawn")
       ELSE Return(s, Err("workspace not found"))
    /\ UNCHANGED <<configVars, connVars, runnerVars, reqs, published,
                   workspaces, sessions, spawned, last_id, added, removed>>

\* "remove_workspace", "remove_worktree": the entry is read from the map
RemoveBegin(s, op, id) ==
    /\ calls[s].at = "idle"
    /\ LET call == [Blank(s) EXCEPT !.op = op, !.id = id]
       IN  calls' = [calls EXCEPT ![s] =
               IF id \notin DOMAIN workspaces
               THEN [call EXCEPT !.at = "done", !.res = Err("workspace not found")]
               ELSE IF op = "remove_worktree" /\ workspaces[id].kind # "worktree"
               THEN [call EXCEPT !.at = "done", !.res = Err("Not a worktree workspace.")]
               ELSE [call EXCEPT !.at = "kill"]]
    /\ UNCHANGED <<configVars, connVars, runnerVars, reqs, published,
                   workspaces, sessions, spawned, last_id, added, removed>>

\* the session leaves the session map and its subprocess is terminated
RemoveSession(s) ==
    /\ calls[s].at = "kill"
    /\ LET id == calls[s].id
       IN  IF id \in DOMAIN sessions
           THEN /\ sessions' = Remove(sessions, id)
                /\ spawned' = [spawned EXCEPT ![sessions[id]].alive = FALSE]
           ELSE UNCHANGED <<sessions, spawned>>
    /\ Goto(s, "unlist")
    /\ UNCHANGED <<configVars, connVars, runnerVars, reqs, published,
                   workspaces, last_id, added, removed>>

\* the entry leaves the workspace map
RemoveEntry(s) ==
    /\ calls[s].at = "unlist"
    /\ workspaces' = Remove(workspaces, calls[s].id)
    /\ removed' = removed \cup {calls[s].id}
    /\ Return(s, Ok("done"))
    /\ UNCHANGED <<configVars, connVars, runnerVars, reqs, published,
                   sessions, spawned, last_id, added>>

\* a request reaches handle_rpc_request with its method and params
Receive(s, method, params) ==
    /\ calls[s] = NoCall
    /\ method # ""
    /\ calls' = [calls EXCEPT ![s] = [NoCall EXCEPT !.method = method, !.params = params]]
    /\ UNCHANGED <<configVars, connVars, runnerVars, reqs, published,
                   workspaces, sessions, spawned, last_id, added, removed>>

\* the request of caller s is refused or answered without an operation
Answered(s, result) ==
    /\ calls' = [calls EXCEPT ![s] = [Blank(s) EXCEPT !.at = "done", !.res = result]]
    /\ UNCHANGED <<configVars, connVars, runnerVars, reqs, published,
                   workspaces, sessions, spawned, last_id, added, removed>>

\* settings_core::update_app_settings_core: the settings are replaced
update_app_settings(s, settings) ==
    /\ app_settings' = settings
    /\ calls' = [calls EXCEPT ![s] = [Blank(s) EXCEPT !.op = "update_app_settings",
                                                      !.at = "done", !.res = Ok(settings)]]
    /\ UNCHANGED <<app_state, build, orbit, token, url_ok, startup, wire, connVars, runnerVars, reqs,
                   published, workspaces, sessions, spawned, last_id, added, removed>>

\* handle_rpc_request on the request of caller s: the parameters are
\* extracted and, unless that fails, the operation is called
Route(s) ==
    /\ calls[s].at = "idle"
    /\ calls[s].method # ""
    /\ LET method == calls[s].method
           result == route(method, calls[s].params)
           args == result.args
       IN IF ~result.ok THEN Answered(s, Err(result.text))
          ELSE CASE method = "ping" -> Answered(s, Ok(OkTrue))
                 [] method = "list_workspaces" -> list_workspaces(s)
                 [] method = "add_workspace" ->
                        \E is_dir \in BOOLEAN :
                            AddBegin(s, "add_workspace", PathOf(args.path.s), is_dir, 0)
                 [] method = "connect_workspace" -> ConnectCheck(s, IdOf(args.id.s))
                 [] method = "remove_workspace" ->
                        RemoveBegin(s, "remove_workspace", IdOf(args.id.s))
                 [] method = "update_app_settings" -> update_app_settings(s, args.settings.s)

\* what the caller's request is answered with: `state.add_workspace(..).await?`
\* and its likes hand the operation's error to the caller
registry_response(call) == call.res

(* --------------------------- specifications --------------------------- *)
\* the request tasks and the awaited requests of connection c
Dispatch(c) ==
    \/ InlineFinish(c)
    \/ \E i \in 1..MaxTasks : TaskStart(c, i)
    \/ \E i \in 1..MaxTasks : TaskFinish(c, i)

\* an inbound connection and its peer
Server(c) ==
    \/ Accept(c)
    \/ \E line \in RpcLines(Len(reqs[c]) + 1) : ReadLine(c, line)
    \/ Close(c)
    \/ Dispatch(c)

\* the reconnect loop of the runner
Loop ==
    \/ BuildUrlFails
    \/ BuildUrlOk
    \/ ConnectFails
    \/ ConnectOk
    \/ Disconnect
    \/ Wake

\* the event bus and the forwarding tasks
Bus ==
    \/ \E kind \in EventKinds : Publish(kind)
    \/ \E c \in Conns : \E i \in 1..(MaxConnects + 1) : forward_events(c, i)

\* the start of the process
Main ==
    \/ ParseEnv
    \/ ParseArg
    \/ ParseEnd
    \/ MainExit
    \/ MainRuns

\* the registry operations of caller s
\* an operation called by the daemon itself, not through handle_rpc_request
Direct(s) == calls[s].method = ""

\* the later steps of the operations
Continue(s) ==
    \/ AddInsert(s)
    \/ SpawnOk(s)
    \/ SpawnFailed(s)
    \/ \E kills \in BOOLEAN : Register(s, kills)
    \/ ConnectLookup(s)
    \/ RemoveSession(s)
    \/ RemoveEntry(s)
    \/ Forget(s)

\* the params of a request: no object, or an object whose members are
\* absent, of the type the methods read, or of another type
Members ==
    {m \in [Keys -> {JAbsent, JStr("repo"), JStr("1"), JUint(1), JObjOther}] :
        /\ m["path"] \in {JAbsent, JStr("repo"), JUint(1)}
        /\ m["codex_bin"] \in {JAbsent, JStr("repo"), JUint(1)}
        /\ m["id"] \in {JAbsent, JStr("1"), JUint(1)}
        /\ m["settings"] \in {JAbsent, JObjOther, JStr("1")}}
Params == {JNull, JStr("repo")} \cup {JMap(m) : m \in Members}
Methods == {"ping", "list_workspaces", "add_workspace", "connect_workspace",
            "remove_workspace", "update_app_settings", "bogus"}

\* a request served by handle_rpc_request
Rpc(s) ==
    \/ \E method \in Methods : \E params \in Params : Receive(s, method, params)
    \/ Route(s)

Registry(s) ==
    \/ Direct(s) /\ list_workspaces(s)
    \/ \E op \in AddOps : \E path \in InputPaths : \E is_dir \in BOOLEAN :
           \E parent \in 1..MaxWorkspaces :
               Direct(s) /\ AddBegin(s, op, path, is_dir, parent)
    \/ AddInsert(s)
    \/ SpawnOk(s)
    \/ SpawnFailed(s)
    \/ \E kills \in BOOLEAN : Register(s, kills)
    \/ \E id \in 1..MaxWorkspaces : Direct(s) /\ ConnectCheck(s, id)
    \/ ConnectLookup(s)
    \/ \E op \in RemoveOps : \E id \in 1..MaxWorkspaces :
           Direct(s) /\ RemoveBegin(s, op, id)
    \/ RemoveSession(s)
    \/ RemoveEntry(s)
    \/ Forget(s)


(* ------------------ the desktop app's daemon commands ----------------- *)
appOthers == <<build, orbit, token, url_ok, startup, app_settings, wire, regVars, connVars,
               reqs, published, runnerVars>>

\* the settings are changed (by the settings commands of the app)
SetSettings(remote_backend_token, remote_backend_host) ==
    /\ app_state' = [app_state EXCEPT !.settings =
                        [remote_backend_token |-> remote_backend_token,
                         remote_backend_host |-> remote_backend_host]]
    /\ UNCHANGED appOthers

\* the child process i ends by itself
ChildEnds(i, how) ==
    /\ i \in 1..Len(app_state.children)
    /\ app_state.children[i] = "running"
    /\ how \in Ended
    /\ app_state' = [app_state EXCEPT !.children[i] = how]
    /\ UNCHANGED appOthers

\* the settings' token, trimmed, if it is not empty
token_of(settings) == filter_non_empty(settings.remote_backend_token)

\* a command begins: it clones the settings, and tailscale_daemon_start
\* returns an error if no token is set or the daemon binary is not found
CmdBegin(s, op, binary_found) ==
    /\ app_state.cmds[s].at = "idle"
    /\ op \in {"start", "stop", "status"}
    /\ LET settings == app_state.settings
           call == [NoCmd EXCEPT !.op = op,
                                 !.listen_addr = daemon_listen_addr(settings.remote_backend_host)]
       IN app_state' = [app_state EXCEPT !.cmds[s] =
            IF op # "start" THEN [call EXCEPT !.at = "wait"]
            ELSE IF ~token_of(settings).some
            THEN [call EXCEPT !.at = "done", !.ok = FALSE,
                              !.err = "Set a Remote backend token"]
            ELSE IF ~binary_found
            THEN [call EXCEPT !.at = "done", !.ok = FALSE, !.err = "daemon binary not found"]
            ELSE [call EXCEPT !.at = "wait", !.token = token_of(settings).s]]
    /\ UNCHANGED appOthers

\* the command returns
Returned(s, runtime, children, ok, err) ==
    app_state' = [app_state EXCEPT
                    !.tcp_daemon = runtime,
                    !.children = children,
                    !.cmds[s] = [NoCmd EXCEPT !.op = app_state.cmds[s].op, !.at = "done",
                                              !.ok = ok, !.err = err]]

\* kill_child_process_tree and child.wait() on the processes
Killed(children, child) ==
    IF child = 0 THEN children ELSE [children EXCEPT ![child] = "reaped"]

\* the processes after a refresh that took the exit status of the child
Reaped(children, child, runtime) ==
    IF child # 0 /\ runtime.child = 0 THEN [children EXCEPT ![child] = "reaped"]
    ELSE children

\* now_unix_ms: the clock, in spawned children
now_unix_ms == Len(app_state.children) + 1

\* tailscale_daemon_start with state.tcp_daemon locked
StartLocked(s, available, spawned_ok) ==
    /\ app_state.cmds[s].at = "wait"
    /\ app_state.cmds[s].op = "start"
    /\ LET runtime == refresh_tcp_daemon_runtime(app_state.tcp_daemon, app_state.children)
           children == Reaped(app_state.children, app_state.tcp_daemon.child, runtime)
           listen_addr == app_state.cmds[s].listen_addr
           pid == Len(app_state.children) + 1
       IN IF runtime.status.state = "Running"
          THEN Returned(s, runtime, children, TRUE, "")
          ELSE IF ~available
          THEN Returned(s, runtime, children, FALSE,
                        "Cannot start mobile access daemon because the address is unavailable")
          ELSE IF ~spawned_ok
          THEN Returned(s, runtime, children, FALSE, "Failed to start mobile access daemon")
          ELSE /\ pid <= MaxChildren
               /\ Returned(s, Runtime(pid, Status("Running", SomeN(pid), SomeN(now_unix_ms),
                                                  None, SomeS(listen_addr))),
                           Append(children, "running"), TRUE, "")
    /\ UNCHANGED appOthers

\* tailscale_daemon_stop with state.tcp_daemon locked
StopLocked(s) ==
    /\ app_state.cmds[s].at = "wait"
    /\ app_state.cmds[s].op = "stop"
    /\ LET old == app_state.tcp_daemon
           stopped == Status("Stopped", None, None, None, old.status.listen_addr)
       IN Returned(s, Runtime(0, sync_tcp_daemon_listen_addr(stopped,
                                                            app_state.cmds[s].listen_addr)),
                   Killed(app_state.children, old.child), TRUE, "")
    /\ UNCHANGED appOthers

\* tailscale_daemon_status with state.tcp_daemon locked
StatusLocked(s) ==
    /\ app_state.cmds[s].at = "wait"
    /\ app_state.cmds[s].op = "status"
    /\ LET runtime == refresh_tcp_daemon_runtime(app_state.tcp_daemon, app_state.children)
       IN Returned(s, Runtime(runtime.child,
                              sync_tcp_daemon_listen_addr(runtime.status,
                                                          app_state.cmds[s].listen_addr)),
                   Reaped(app_state.children, app_state.tcp_daemon.child, runtime), TRUE, "")
    /\ UNCHANGED appOthers

\* the caller has its answer and may call again
CmdEnd(s) ==
    /\ app_state.cmds[s].at = "done"
    /\ app_state' = [app_state EXCEPT !.cmds[s] = NoCmd]
    /\ UNCHANGED appOthers

\* sync_tcp_daemon_listen_addr called on the status as it is, with the
\* address the command has computed
SyncOnly(s) ==
    /\ app_state.cmds[s].at = "wait"
    /\ app_state.cmds[s].op \in {"stop", "status"}
    /\ app_state' = [app_state EXCEPT
            !.tcp_daemon.status = sync_tcp_daemon_listen_addr(@, app_state.cmds[s].listen_addr),
            !.cmds[s] = [@ EXCEPT !.op = "sync", !.at = "done"]]
    /\ UNCHANGED appOthers

\* what the settings of the app may hold
Tokens == {None, SomeS(" "), SomeS("x")}
SomeHosts == {<<>>, <<"a", ":", "6">>}

\* the desktop app, its user and its child processes
App(s) ==
    \/ \E op \in {"start", "stop", "status"} : \E binary_found \in BOOLEAN :
           CmdBegin(s, op, binary_found)
    \/ \E available, spawned_ok \in BOOLEAN : StartLocked(s, available, spawned_ok)
    \/ StopLocked(s)
    \/ StatusLocked(s)
    \/ CmdEnd(s)

AppEnv ==
    \/ \E t \in Tokens : \E h \in SomeHosts : SetSettings(t, h)
    \/ \E i \in 1..MaxChildren : \E how \in Ended : ChildEnds(i, how)

\* the spawned tasks of the requests of connection c
Spawned(c) ==
    \/ \E i \in 1..MaxTasks : TaskStart(c, i)
    \/ \E i \in 1..MaxTasks : TaskFinish(c, i)

\* the lines of a client, k being its next fresh id: the token, a request,
\* an empty line
WsLines(k) ==
    {Line(JUint(k), JStr("auth"), JStr(TheToken)),
     Line(JUint(k), JStr("ping"), JAbsent),
     Msg("blank", JAbsent, JAbsent, JAbsent, JAbsent)}

\* the id after a line of a client whose next fresh id was k
After(line, k) == IF line.id.t = "uint" THEN k + 1 ELSE k

\* the payloads of a frame, k being the next fresh id: no line, one or two
Payloads(k) ==
    {<<>>} \cup {<<line>> : line \in WsLines(k)}
           \cup UNION {{<<first, second>> : second \in WsLines(After(first, k))} :
                           first \in {line \in WsLines(k) : After(line, k) <= MaxIds}}

\* the frames a WebSocket client may send
Frames(k) ==
    {Frame(kind, lines) : kind \in {"text", "binary"}, lines \in Payloads(k)}
        \cup {Frame("invalid", <<line>>) : line \in WsLines(k)}
        \cup {Frame(kind, <<>>) : kind \in {"ping", "pong", "frame"}}

\* a WebSocket connection and its peer
Ws(c) ==
    \/ WsAccept(c)
    \/ HandshakeFails(c)
    \/ \E frame \in Frames(Len(reqs[c]) + 1) : WsFrame(c, frame)
    \/ WsLine(c)
    \/ \E kind \in {"close", "error"} : WsClose(c, kind)
    \/ Spawned(c)

\* a TCP connection and its peer, whose lines are noted
Tcp(c) ==
    \/ Accept(c)
    \/ \E line \in WsLines(Len(reqs[c]) + 1) : TcpLine(c, line)
    \/ Close(c)
    \/ Spawned(c)

\* the whole daemon, in either mode
Next ==
    \/ \E c \in Inbound : Server(c)
    \/ Loop
    \/ \E line \in OrbitLines(Len(reqs[Runner]) + 1) : OrbitLine(line)
    \/ Dispatch(Runner)
    \/ Bus
    \/ \E c \in Conns : WriteFails(c)
    \/ \E s \in Callers : Registry(s)
    \/ \E s \in Callers : Rpc(s)
    \/ \E c \in Inbound : Tcp(c) \/ Ws(c)
    \/ \E s \in Callers : App(s)
    \/ AppEnv
    \/ Main

Spec == Init /\ [][Next]_vars

\* requests and responses: one inbound connection or the runner's, with a
\* relay that accepts every connection, and no event published
ProtoNext ==
    \/ Server("c1")
    \/ BuildUrlFails
    \/ BuildUrlOk
    \/ ConnectOk
    \/ Disconnect
    \/ Wake
    \/ \E line \in OrbitLines(Len(reqs[Runner]) + 1) : OrbitLine(line)
    \/ Dispatch(Runner)

ProtoSpec == Init /\ [][ProtoNext]_vars

\* the reconnect loop alone: a relay that sends nothing
LoopNext == Loop

\* main with an orbit URL configured
RunnerInit == Init /\ orbit

LoopSpec == RunnerInit /\ [][LoopNext]_vars

\* the same with a sleep that returns: tokio's timer fires
FairLoopSpec == LoopSpec /\ WF_vars(Wake)

\* main with no orbit URL: the TCP listener
ServerInit == Init /\ ~orbit

\* what a client that authenticates and then calls may send, k being its
\* next fresh id
Requests(k) ==
    {Line(JUint(k), JStr("auth"), JStr(TheToken)),
     Line(JUint(k), JStr("ping"), JAbsent),
     Line(JUint(k), JStr("nope"), JAbsent)}

\* one inbound connection whose client sends requests with ids
BackpressureNext ==
    \/ Accept("c1")
    \/ \E line \in Requests(Len(reqs["c1"]) + 1) : ReadLine("c1", line)
    \/ Close("c1")
    \/ Dispatch("c1")

\* the same with a scheduler that runs every task that can run, a semaphore
\* that hands a free permit to its first waiter, and operations that finish
BackpressureSpec ==
    /\ ServerInit
    /\ [][BackpressureNext]_vars
    /\ WF_vars(InlineFinish("c1"))
    /\ \A i \in 1..MaxTasks :
         WF_vars(TaskStart("c1", i)) /\ WF_vars(TaskFinish("c1", i))

\* what a client may send around its authentication, k being its next fresh id
AuthLines(k) ==
    {Line(JUint(k), JStr("auth"), JStr(TheToken)),
     Line(JUint(k), JStr("auth"), JStr("wrong")),
     Line(JUint(k), JStr("ping"), JAbsent)}

\* events and their forwarding: one inbound connection, or the runner and a
\* relay that sends nothing; the events are of one kind
EventNext ==
    \/ Accept("c1")
    \/ \E line \in AuthLines(Len(reqs["c1"]) + 1) : ReadLine("c1", line)
    \/ Close("c1")
    \/ Dispatch("c1")
    \/ BuildUrlFails
    \/ BuildUrlOk
    \/ ConnectOk
    \/ Disconnect
    \/ Wake
    \/ Publish("AppServer")
    \/ \E c \in {"c1", Runner} : \E i \in 1..(MaxConnects + 1) : forward_events(c, i)

EventSpec == Init /\ [][EventNext]_vars

\* what a client may send to authenticate, k being its next fresh id: the
\* token as a string or inside an object, another string, an object without
\* a string `token`, a number, no params at all; and a request
AuthAttempts(k) ==
    {Line(JUint(k), JStr("auth"), JStr(TheToken)),
     Line(JAbsent, JStr("auth"), JObjToken(TheToken)),
     Line(JUint(k), JStr("auth"), JStr("wrong")),
     Line(JAbsent, JStr("auth"), JObjToken("wrong")),
     Line(JUint(k), JStr("auth"), JObjOther),
     Line(JAbsent, JStr("auth"), JUint(7)),
     Line(JUint(k), JStr("auth"), JAbsent),
     Line(JUint(k), JStr("ping"), JAbsent)}

\* one inbound connection and a client that tries to authenticate
AuthNext ==
    \/ Accept("c1")
    \/ \E line \in AuthAttempts(Len(reqs["c1"]) + 1) : ReadLine("c1", line)
    \/ Close("c1")
    \/ Dispatch("c1")

AuthSpec == ServerInit /\ [][AuthNext]_vars

\* what a peer that sends noise may send, k being its next fresh id: an empty
\* line, a line that is no JSON, JSON values without a method string (with
\* and without an id), and the token and a request
FrameLines(k) ==
    {Msg("blank", JAbsent, JAbsent, JAbsent, JAbsent),
     Msg("garbage", JAbsent, JAbsent, JAbsent, JAbsent),
     Line(JAbsent, JAbsent, JAbsent),
     Line(JUint(k), JAbsent, JAbsent),
     Line(JUint(k), JUint(5), JAbsent),
     Line(JUint(k), JStr("auth"), JStr(TheToken)),
     Line(JUint(k), JStr("ping"), JAbsent)}

\* one inbound connection and a peer that sends noise
FrameNext ==
    \/ Accept("c1")
    \/ \E line \in FrameLines(Len(reqs["c1"]) + 1) : ReadLine("c1", line)
    \/ Close("c1")
    \/ Dispatch("c1")

FrameSpec == ServerInit /\ [][FrameNext]_vars

\* events and one inbound connection of a listener without token, with a
\* scheduler that runs a forwarding task that can take a turn
LagInit == Init /\ ~orbit /\ ~token.some

LagNext ==
    \/ Accept("c1")
    \/ Close("c1")
    \/ Publish("AppServer")
    \/ forward_events("c1", 1)

LagSpec == LagInit /\ [][LagNext]_vars /\ WF_vars(forward_events("c1", 1))

\* one inbound connection and a client that sends lines of every kind
StateNext ==
    \/ Accept("c1")
    \/ \E line \in RpcLines(Len(reqs["c1"]) + 1) : ReadLine("c1", line)
    \/ Close("c1")
    \/ Dispatch("c1")

StateSpec == ServerInit /\ [][StateNext]_vars

\* events and the requests of one inbound connection of a listener without
\* token: a request may finish or go on for ever, and the scheduler runs a
\* forwarding task that can take a turn
BusyNext ==
    \/ Accept("c1")
    \/ ReadLine("c1", Line(JUint(Len(reqs["c1"]) + 1), JStr("ping"), JAbsent))
    \/ Close("c1")
    \/ Dispatch("c1")
    \/ Publish("AppServer")
    \/ forward_events("c1", 1)

BusySpec == LagInit /\ [][BusyNext]_vars /\ WF_vars(forward_events("c1", 1))

\* the registry alone: a listener without token, one caller with every
\* operation and a second one that connects and removes meanwhile
\* frames of the relay that carry a `type`, k being the next fresh id: a
\* ping in three spellings, another type, and a type that is no string, each
\* with a method and an id; and a request without a type
PingLines(k) ==
    {Msg("json", JStr("ping"), JUint(k), JStr("ping"), JAbsent),
     Msg("json", JStr("PING"), JUint(k), JStr("ping"), JAbsent),
     Msg("json", JStr("Ping"), JUint(k), JStr("ping"), JAbsent),
     Msg("json", JStr("other"), JUint(k), JStr("ping"), JAbsent),
     Msg("json", JUint(5), JUint(k), JStr("ping"), JAbsent),
     Line(JUint(k), JStr("ping"), JAbsent)}

\* the runner and a relay that sends such frames
PingNext ==
    \/ BuildUrlFails
    \/ BuildUrlOk
    \/ ConnectOk
    \/ Disconnect
    \/ Wake
    \/ \E line \in PingLines(Len(reqs[Runner]) + 1) : OrbitLine(line)
    \/ Dispatch(Runner)

PingSpec == RunnerInit /\ [][PingNext]_vars

\* the runner and a relay that sends nothing, with events published, writes
\* that may fail and more than one successful connection
ReconnectNext ==
    \/ BuildUrlFails
    \/ BuildUrlOk
    \/ ConnectFails
    \/ ConnectWithin(MaxReconnects)
    \/ Disconnect
    \/ Wake
    \/ WriteFails(Runner)
    \/ Publish("AppServer")
    \/ \E i \in 1..MaxReconnects : forward_events(Runner, i)

ReconnectSpec == RunnerInit /\ [][ReconnectNext]_vars

\* the argument lists of up to n strings
RECURSIVE ArgLists(_)
ArgLists(n) ==
    IF n = 0 THEN {<<>>}
    ELSE ArgLists(n - 1) \cup {<<a>> \o l : a \in ArgStrings, l \in ArgLists(n - 1)}

\* the single-file daemon is started with any such arguments, the token
\* variable of its environment unset or set to any such string
ArgsInit ==
    /\ startup \in {Startup(env, args) :
                       env \in {None} \cup {SomeS(e) : e \in ArgStrings},
                       args \in ArgLists(MaxArgs)}
    /\ build = "daemon"
    /\ orbit = FALSE
    /\ token = None
    /\ url_ok = TRUE
    /\ phase = [c \in Conns |-> "idle"]
    /\ authenticated = [c \in Conns |-> FALSE]
    /\ events_task = [c \in Conns |-> 0]
    /\ fwd = [c \in Conns |-> <<>>]
    /\ out = [c \in Conns |-> <<>>]
    /\ write_task = [c \in Conns |-> <<>>]
    /\ limiter = [c \in Conns |-> <<>>]
    /\ tasks = [c \in Conns |-> <<>>]
    /\ reqs = [c \in Conns |-> <<>>]
    /\ published = <<>>
    /\ pc = "off"
    /\ reconnect_delay = BASE_DELAY
    /\ fails = 0
    /\ waits = 0
    /\ connects = 0
    /\ workspaces = Insert(EmptyMap, StoredId, StoredEntry)
    /\ sessions = EmptyMap
    /\ spawned = <<>>
    /\ calls = [s \in Callers |-> NoCall]
    /\ last_id = StoredId
    /\ added = {}
    /\ removed = {}
    /\ app_settings = "default"
    /\ wire = [c \in Inbound |-> NoWire]
    /\ app_state = NoApp

ArgsNext == Main

ArgsSpec == ArgsInit /\ [][ArgsNext]_vars

\* two inbound connections of a listener without a token, their clients
\* sending pings, and writes that may fail
WriterNext ==
    \/ \E c \in Inbound : Accept(c)
    \/ \E c \in Inbound : ReadLine(c, Line(JUint(Len(reqs[c]) + 1), JStr("ping"), JAbsent))
    \/ \E c \in Inbound : Close(c)
    \/ \E c \in Inbound : Dispatch(c)
    \/ \E c \in Inbound : WriteFails(c)

WriterSpec == LagInit /\ [][WriterNext]_vars

RegistryInit == Init /\ ~orbit /\ build = "daemon" /\ token = None

Racer(s) ==
    \/ \E id \in 1..MaxWorkspaces : ConnectCheck(s, id)
    \/ ConnectLookup(s)
    \/ SpawnOk(s)
    \/ SpawnFailed(s)
    \/ \E kills \in BOOLEAN : Register(s, kills)
    \/ \E id \in 1..MaxWorkspaces : RemoveBegin(s, "remove_workspace", id)
    \/ RemoveSession(s)
    \/ RemoveEntry(s)
    \/ Forget(s)

RegistryNext == Registry("p") \/ Racer("q")

RegistrySpec == RegistryInit /\ [][RegistryNext]_vars

\* the registry with one operation at a time
SerialNext == Registry("p")

SerialSpec == RegistryInit /\ [][SerialNext]_vars

\* a TCP connection and a WebSocket connection of one listener
WsInit == ServerInit /\ build = "transport"

\* connection c has handled what it read and its requests are answered
Settled(c) == phase[c] = "open" /\ wire[c].rest = <<>> /\ tasks[c] = <<>>

\* the TCP connection c is sent the logical lines the peer of d has sent
Replay(c, d) ==
    \/ Accept(c)
    \/ /\ Len(wire[c].lines) < Len(wire[d].lines)
       /\ TcpLine(c, wire[d].lines[Len(wire[c].lines) + 1])
    \/ Spawned(c)

\* the two handlers share no state of their own, so the WebSocket client
\* is let run first and the TCP client after it
WsNext ==
    \/ phase["c1"] = "idle" /\ Ws("c2")
    \/ Settled("c2") /\ Replay("c1", "c2")

WsSpec == WsInit /\ [][WsNext]_vars

\* the hosts of up to n characters
Hosts(n) == UNION {[1..k -> Chars] : k \in 0..n}

\* the statuses a TcpDaemonStatus value may be, as the tests build them
Statuses ==
    {Status(state, pid, started_at_ms, last_error, listen_addr) :
        state \in {"Stopped", "Running", "Error"},
        pid \in {None, SomeN(42)},
        started_at_ms \in {None, SomeN(1)},
        last_error \in {None, SomeS("e")},
        listen_addr \in {None, SomeS("0.0.0.0:7777")}}

\* the listen address: any host with the status of a fresh app, and any
\* status with the hosts of the settings
AddrInit ==
    /\ InitDaemon
    /\ ~orbit
    /\ build = "daemon"
    /\ token = None
    /\ \E host \in Hosts(MaxHostLen), status \in Statuses :
           /\ status = NoApp.tcp_daemon.status \/ host \in SomeHosts
           /\ app_state = [NoApp EXCEPT !.settings.remote_backend_host = host,
                                        !.tcp_daemon.status = status]

AddrNext ==
    \/ \E op \in {"stop", "status"} : CmdBegin("p", op, TRUE)
    \/ SyncOnly("p")

AddrSpec == AddrInit /\ [][AddrNext]_vars

\* the desktop app with two callers of its daemon commands
AppInit == RegistryInit

AppNext == (\E s \in Callers : App(s)) \/ AppEnv

AppSpec == AppInit /\ [][AppNext]_vars

\* one caller whose requests go through handle_rpc_request, one at a time
RpcNext == Rpc("p") \/ Continue("p")

RpcSpec == RegistryInit /\ [][RpcNext]_vars

(* ----------------------- requests and responses ----------------------- *)
IsResponse(e) == e.kind \in {"result", "error"}

\* the places of connection c's outbound queue that hold a response with id k
Responses(c, k) == {i \in 1..Len(out[c]) : IsResponse(out[c][i]) /\ out[c][i].id = k}

\* the unfinished dispatches of connection c's present channel for id k
Pending(c, k) ==
    {i \in 1..Len(tasks[c]) : tasks[c][i].id = SomeN(k) /\ tasks[c][i].gen = CurGen(c)}

\* the envelope the RPC engine's answer to `line` makes, k being the line's id
Answer(line, k) ==
    response_of(Task(0, "running", FALSE, SomeN(k), method_of(line.method),
                     params_of(line.params)))

\* the envelopes a handler may send for `line`
Envelopes(line, k) ==
    {<<Entry("error", k, "unauthorized", 0)>>, <<Entry("error", k, "invalid token", 0)>>,
     <<Entry("result", k, OkTrue, 0)>>, Answer(line, k)}

GoodAuth(line) ==
    /\ method_of(line.method) = "auth"
    /\ line.type.t = "absent"
    /\ unwrap_or_default(parse_auth_token(params_of(line.params))) = TheToken

LiveForwarders(c) == {i \in 1..Len(fwd[c]) : fwd[c][i].live}

Events(c) == {i \in 1..Len(out[c]) : out[c][i].kind = "event"}

\* tasks of generation g of connection c that are inside handle_rpc_request
Running(c, g) ==
    Cardinality({i \in 1..Len(tasks[c]) : tasks[c][i].gen = g /\ tasks[c][i].st = "running"})

\* C1, as the specification states it: with a token configured, every line
\* with an id and a method other than `auth` that an inbound connection reads
\* while unauthenticated is answered with the `unauthorized` error and is
\* never dispatched, and an unauthenticated connection has no forwarding task
\* and no event in its queue
C1_UnauthorizedGate ==
    token.some =>
        \A c \in Inbound :
            /\ \A k \in 1..Len(reqs[c]) :
                 (~reqs[c][k].was /\ method_of(reqs[c][k].line.method) # "auth")
                    => /\ \E i \in Responses(c, k) :
                            out[c][i] = Entry("error", k, "unauthorized", 0)
                       /\ Pending(c, k) = {}
            /\ ~authenticated[c] => (LiveForwarders(c) = {} /\ Events(c) = {})

\* C2, as the specification states it: with a token configured, every
\* response to an `auth` that carries an id and the token is the success
\* envelope, also when the connection was authenticated already
C2_AuthTwiceSucceeds ==
    token.some =>
        \A c \in Inbound : \A k \in 1..Len(reqs[c]) :
            GoodAuth(reqs[c][k].line)
                => /\ \A i \in Responses(c, k) : out[c][i] = Entry("result", k, OkTrue, 0)
                   /\ (phase[c] = "open" /\ Pending(c, k) = {}) => Responses(c, k) # {}

\* C3: a connection never has two live forwarding tasks, and no event is
\* twice in one outbound queue
C3_OneForwarder ==
    \A c \in Conns :
        /\ Cardinality(LiveForwarders(c)) <= 1
        /\ \A i, j \in Events(c) : out[c][i].ev = out[c][j].ev => i = j

\* a connection that has read `auth` with the token twice and has an event
\* in its queue
C3_Witness ==
    \E c \in Inbound :
        /\ Len(reqs[c]) >= 2
        /\ GoodAuth(reqs[c][1].line)
        /\ GoodAuth(reqs[c][2].line)
        /\ Events(c) # {}
        /\ Cardinality(LiveForwarders(c)) = 1

\* C4: every response in a queue carries the id of a line that was read with
\* that id and is an envelope of that line, and there are no more responses
\* than such lines: a line without an unsigned id adds none
C4_NoIdNoResponse ==
    \A c \in Conns :
        /\ \A i \in 1..Len(out[c]) :
             IsResponse(out[c][i])
                => /\ out[c][i].id \in 1..Len(reqs[c])
                   /\ <<out[c][i]>> \in Envelopes(reqs[c][out[c][i].id].line, out[c][i].id)
        /\ Cardinality({i \in 1..Len(out[c]) : IsResponse(out[c][i])}) <= Len(reqs[c])

\* a request without an id is inside the RPC engine on an open connection
\* that has read no line with an id
C4_Witness ==
    \E c \in Conns :
        /\ phase[c] = "open"
        /\ reqs[c] = <<>>
        /\ \E i \in 1..Len(tasks[c]) : ~tasks[c][i].id.some /\ tasks[c][i].st = "running"

\* C5, as the specification states it: on an open connection, every line read
\* that has an unsigned id and a string for its method (the runner's typed
\* control frames aside) has exactly one response, sent or still to come
C5_ExactlyOneResponse ==
    \A c \in Conns : \A k \in 1..Len(reqs[c]) :
        (phase[c] = "open" /\ reqs[c][k].line.method.t = "str"
                           /\ reqs[c][k].line.type.t = "absent")
            => Cardinality(Responses(c, k)) + Cardinality(Pending(c, k)) = 1

\* C6: no more than MAX_IN_FLIGHT_RPC_PER_CONNECTION requests of one
\* connection are inside the RPC engine at once, the permits out and the
\* permits left add up to the capacity, and a request that waits for a permit
\* has been sent no response
C6_InFlightBounded ==
    \A c \in Conns : \A g \in 1..CurGen(c) :
        /\ Running(c, g) <= MAX_IN_FLIGHT_RPC_PER_CONNECTION
        /\ (build = "transport" /\ g <= Len(limiter[c]))
              => limiter[c][g] + InFlight(c, g) = MAX_IN_FLIGHT_RPC_PER_CONNECTION
        /\ \A i \in 1..Len(tasks[c]) :
             (tasks[c][i].st = "waiting" /\ tasks[c][i].gen = CurGen(c) /\ tasks[c][i].id.some)
                => Responses(c, tasks[c][i].id.n) = {}

\* every permit of a connection is taken and a request with an id waits
C6_Witness ==
    \E c \in Conns :
        /\ build = "transport"
        /\ phase[c] = "open"
        /\ InFlight(c, CurGen(c)) = MAX_IN_FLIGHT_RPC_PER_CONNECTION
        /\ \E i \in 1..Len(tasks[c]) : tasks[c][i].st = "waiting" /\ tasks[c][i].id.some

\* C7: every dispatched request with an id is sent the RPC engine's answer,
\* unless the connection closes first
C7_NoStarvation ==
    \A k \in 1..MaxIds :
        (Pending("c1", k) # {})
            ~> \/ phase["c1"] # "open"
               \/ \E i \in Responses("c1", k) :
                    <<out["c1"][i]>> = Answer(reqs["c1"][k].line, k)

\* more requests with ids than the limiter has permits are unfinished on
\* the connection, the permits all taken
C7_Witness ==
    /\ build = "transport"
    /\ phase["c1"] = "open"
    /\ Cardinality({k \in 1..MaxIds : Pending("c1", k) # {}})
          > MAX_IN_FLIGHT_RPC_PER_CONNECTION
    /\ limiter["c1"][1] = 0

(* ------------------------- the reconnect loop ------------------------- *)
RECURSIVE Pow2(_)
Pow2(n) == IF n = 0 THEN 1 ELSE 2 * Pow2(n - 1)

\* C8, as the specification states it: after n consecutive failures the wait
\* is min(base * 2^n, cap)
C8_WaitAfterFailuresAsStated ==
    (pc = "sleeping" /\ fails >= 1 /\ fails < MaxFailures)
        => reconnect_delay = Min(BASE_DELAY * Pow2(fails), MAX_DELAY)

\* C8, as the code has it: the k-th wait since the delay was last at the base
\* (at start, or at the latest successful connection) is
\* min(base * 2^(k-1), cap); so n failures from the start end in a wait of
\* min(base * 2^(n-1), cap), and n failures after a connection that ended in
\* a wait of min(base * 2^n, cap)
C8_WaitDoublesFromBase ==
    (pc = "sleeping" /\ waits < MaxFailures)
        => /\ waits >= 1
           /\ reconnect_delay = Min(BASE_DELAY * Pow2(waits - 1), MAX_DELAY)
           /\ waits = (IF connects = 0 THEN fails ELSE fails + 1)

\* the runner sleeps the ceiling after five failures that followed a connection
C8_Witness ==
    /\ pc = "sleeping"
    /\ connects = 1
    /\ fails = 5
    /\ waits = 6
    /\ reconnect_delay = MAX_DELAY

\* C9: the first wait after a successful connection is the base interval
C9_SuccessResetsDelay ==
    (pc = "sleeping" /\ connects > 0 /\ waits = 1) => reconnect_delay = BASE_DELAY

\* the stream of a connection has ended and the runner sleeps for the first
\* time since that connection
C9_Witness ==
    /\ pc = "sleeping"
    /\ connects = 1
    /\ waits = 1
    /\ fails = 0
    /\ phase[Runner] = "closed"

\* C10: whenever the runner sleeps after a failure or the end of a stream, it
\* makes another attempt
C10_LoopNeverStops == (pc = "sleeping") ~> (pc = "attempt")

\* the runner is at the top of its loop again after a sleep of the ceiling
C10_Witness ==
    /\ pc = "attempt"
    /\ waits >= 6
    /\ reconnect_delay = MAX_DELAY

(* ------------------------ the session registry ------------------------ *)
\* the subprocesses alive for workspace w
Alive(w) == {i \in 1..Len(spawned) : spawned[i].ws = w /\ spawned[i].alive}

\* C11: under any interleaving of the registry operations, every workspace
\* id that is a key of the session map is a key of the workspace map
C11_SessionsWithinWorkspaces == DOMAIN sessions \subseteq DOMAIN workspaces

\* C12: two concurrent connect_workspace calls for the same workspace id,
\* with no other operation on the registry, leave at most one agent
\* subprocess spawned and alive for that id
C12_ConcurrentConnectSpawnsOnce ==
    \A w \in DOMAIN workspaces :
        (/\ \A s \in Callers : calls[s].op = "connect_workspace" /\ calls[s].id = w
         /\ removed = {}
         /\ last_id = StoredId)
        => Cardinality(Alive(w)) <= 1

\* q is the normal form of path p: p without its "." components
NormalFormOf(q, p) ==
    /\ \A i \in 1..Len(q) : q[i] # "."
    /\ q = SelectSeq(p, LAMBDA c : c # ".")

\* a finished list_workspaces of caller s
Listed(s) == calls[s].op = "list_workspaces" /\ calls[s].at = "done"

AddSpawnFailed(s) ==
    /\ calls[s].op = "add_workspace"
    /\ calls[s].at = "done"
    /\ calls[s].id # 0
    /\ calls[s].pid = 0

\* C14: with one operation at a time, an add_workspace whose session fails
\* to spawn hands the spawn error to its caller and leaves the workspace map
\* and the session map as they were before the call
C14_FailedAddRollsBack ==
    AddSpawnFailed("p") =>
        /\ registry_response(calls["p"]) = Err("failed to spawn session")
        /\ <<workspaces, sessions>> = calls["p"].before

\* a failed add_workspace next to a workspace that has a session
C14_Witness == AddSpawnFailed("p") /\ DOMAIN sessions # {}

(* ------------------------ the connection states ----------------------- *)
Ping(k) == Line(JUint(k), JStr("ping"), JAbsent)

\* C15: with no token configured, an inbound connection is authenticated and
\* has its forwarding task running for as long as it is open, and a first
\* request {id:1, method:"ping"} gets {id:1, result:{ok:true}} and nothing
\* else
C15_NoTokenStartsAuthenticated ==
    ~token.some =>
        \A c \in Inbound :
            /\ phase[c] = "open" => authenticated[c] /\ events_task[c] \in LiveForwarders(c)
            /\ (Len(reqs[c]) >= 1 /\ reqs[c][1].line = Ping(1)) =>
                   /\ \A i \in Responses(c, 1) : out[c][i] = Entry("result", 1, OkTrue, 0)
                   /\ Cardinality(Responses(c, 1)) <= 1
                   /\ (phase[c] = "open" /\ Pending(c, 1) = {}) => Responses(c, 1) # {}

\* the ping of an open connection of a daemon without token was answered
C15_Witness ==
    /\ ~token.some
    /\ phase["c1"] = "open"
    /\ Len(reqs["c1"]) >= 1
    /\ reqs["c1"][1].line = Ping(1)
    /\ Responses("c1", 1) # {}

\* connection c reads `line`, an `auth` with the configured token, while
\* unauthenticated
AuthStep(c, line) ==
    /\ ReadLine(c, line)
    /\ token.some
    /\ ~authenticated[c]
    /\ method_of(line.method) = "auth"
    /\ unwrap_or_default(parse_auth_token(params_of(line.params))) = token.s

\* the line authenticates the connection, starts its forwarding task and is
\* answered with the success envelope if it has an id
AuthEffect(c, line) ==
    /\ authenticated'[c]
    /\ events_task'[c] \in LiveForwarders(c)'
    /\ out'[c] = out[c] \o (IF line.id.t = "uint"
                            THEN <<Entry("result", line.id.n, OkTrue, 0)>>
                            ELSE <<>>)

\* the request with id k that connection c read while authenticated was
\* dispatched: its responses are the RPC engine's answer, and it has one
\* once it is no longer in progress
Dispatched(c, k) ==
    /\ \A i \in Responses(c, k) : <<out[c][i]>> = Answer(reqs[c][k].line, k)
    /\ (phase[c] = "open" /\ Pending(c, k) = {}) => Responses(c, k) # {}

\* C16, as the specification states it: with a token configured, an `auth`
\* with that token (a string or an object with `token`) authenticates the
\* connection, is answered with the success envelope if it has an id and
\* starts the forwarding task; and every request with another method that
\* the connection reads afterwards is dispatched to the RPC engine and not
\* answered `unauthorized`
C16_AuthOpensTheConnection ==
    /\ [][\A c \in Inbound : \A line \in RpcLines(Len(reqs[c]) + 1) :
              AuthStep(c, line) => AuthEffect(c, line)]_vars
    /\ [](token.some =>
             \A c \in Inbound : \A k \in 1..Len(reqs[c]) :
                 (reqs[c][k].was /\ method_of(reqs[c][k].line.method) # "auth")
                     => Dispatched(c, k))

\* connection c reads `line`, an `auth` whose token is not the configured
\* one, while unauthenticated
BadAuthStep(c, line) ==
    /\ ReadLine(c, line)
    /\ token.some
    /\ ~authenticated[c]
    /\ method_of(line.method) = "auth"
    /\ \/ ~parse_auth_token(params_of(line.params)).some
       \/ parse_auth_token(params_of(line.params)).s # token.s

\* C17: with a token configured, an `auth` with another token, with no
\* params, or with params that are neither a string nor an object with a
\* string `token`, is answered with the `invalid token` error if it has an
\* id, and leaves the connection unauthenticated, without forwarding task,
\* and open
C17_BadAuthRejected ==
    [][\A line \in AuthAttempts(Len(reqs["c1"]) + 1) :
          BadAuthStep("c1", line) =>
              /\ out'["c1"] = out["c1"] \o (IF line.id.t = "uint"
                                            THEN <<Entry("error", line.id.n, "invalid token", 0)>>
                                            ELSE <<>>)
              /\ ~authenticated'["c1"]
              /\ events_task'["c1"] = 0
              /\ fwd'["c1"] = <<>>
              /\ tasks'["c1"] = tasks["c1"]
              /\ phase'["c1"] = "open"]_vars

\* an open, unauthenticated connection that was refused an `auth` whose
\* params are an object without token and one without params
C17_Witness ==
    /\ token.some
    /\ phase["c1"] = "open"
    /\ ~authenticated["c1"]
    /\ Len(reqs["c1"]) = 2
    /\ reqs["c1"][1].line.params = JObjOther
    /\ reqs["c1"][2].line.params = JAbsent
    /\ out["c1"] = <<Entry("error", 1, "invalid token", 0), Entry("error", 2, "invalid token", 0)>>

\* a line that is empty, is no JSON, or is JSON without a `method` string:
\* not of the shape {id?, method, params?}
NoEnvelope(line) == line.line # "json" \/ line.method.t # "str"

\* C18, as the specification states it: a line that is empty, is not valid
\* JSON or does not have the envelope shape is dropped silently: reading it
\* enqueues nothing, leaves the authenticated flag, the forwarding task and
\* the registry as they are and the connection open, and no response to it
\* is enqueued later
C18_NoiseIsDropped ==
    /\ [][\A line \in FrameLines(Len(reqs["c1"]) + 1) :
              (NoEnvelope(line) /\ ReadLine("c1", line)) =>
                  /\ out'["c1"] = out["c1"]
                  /\ authenticated'["c1"] = authenticated["c1"]
                  /\ events_task'["c1"] = events_task["c1"]
                  /\ fwd'["c1"] = fwd["c1"]
                  /\ phase'["c1"] = "open"
                  /\ UNCHANGED regVars]_vars
    /\ [](\A k \in 1..Len(reqs["c1"]) :
             NoEnvelope(reqs["c1"][k].line) => Responses("c1", k) = {})

\* the RPC engine knows no method of this name
UnknownMethod(line) ==
    /\ line.method.t = "str"
    /\ line.method.s # "auth"
    /\ ~handle_rpc_request(method_of(line.method), params_of(line.params)).ok

\* C19, as the specification states it: a request with an id and an empty
\* or unknown method that an inbound connection reads while authenticated is
\* dispatched and answered with the "unknown method" error, and with
\* nothing else
C19_UnknownMethodAnswered ==
    \A c \in Inbound : \A k \in 1..Len(reqs[c]) :
        (reqs[c][k].was /\ UnknownMethod(reqs[c][k].line)) =>
            /\ \A i \in Responses(c, k) :
                   out[c][i] = Entry("error", k,
                                     "unknown method: " \o reqs[c][k].line.method.s, 0)
            /\ (phase[c] = "open" /\ Pending(c, k) = {}) => Responses(c, k) # {}

(* ------------------------------ the events ---------------------------- *)
\* C20: the event notifications in a connection's outbound queue are events
\* that were published, each is the notification of its event, and they are
\* in the order of their publication with none twice: a subsequence of the
\* published events
C20_EventsInPublishOrder ==
    \A c \in Conns :
        /\ \A i \in Events(c) :
               /\ out[c][i].ev \in 1..Len(published)
               /\ <<out[c][i]>> = build_event_notification(published[out[c][i].ev])
        /\ \A i, j \in Events(c) : i < j => out[c][i].ev < out[c][j].ev

\* a connection whose forwarding task began before the first event, lagged
\* and so missed it, and sent the second
C20_Witness ==
    \E c \in Conns : \E t \in LiveForwarders(c) :
        /\ fwd[c][t].from = 0
        /\ \E i \in Events(c) : out[c][i].ev = 2
        /\ \A i \in Events(c) : out[c][i].ev # 1

\* event n was published after a live forwarding task of the open connection
\* c was last told that it had lagged
AfterLag(c, n) ==
    /\ phase[c] = "open"
    /\ n <= Len(published)
    /\ \E i \in LiveForwarders(c) : fwd[c][i].lagged_at > 0 /\ fwd[c][i].lagged_at < n

Forwarded(c, n) == \E j \in Events(c) : out[c][j].ev = n

\* C21: a forwarding task ends only with its connection (the outbound queue
\* is closed or the task aborted), not when it lags; and every event that is
\* published after the task has lagged reaches the connection's queue,
\* unless the event is overwritten first or the connection closes
C21_LagDoesNotEndTheTask ==
    /\ [][\A i \in 1..Len(fwd["c1"]) :
              (fwd["c1"][i].live /\ ~fwd'["c1"][i].live)
                  => (phase["c1"] # "open" \/ phase'["c1"] # "open")]_vars
    /\ \A n \in 1..MaxEvents :
           AfterLag("c1", n) ~> (Forwarded("c1", n) \/ phase["c1"] # "open" \/ n <= Overwritten)

\* a forwarding task that lagged and then forwarded an event published later
C21_Witness ==
    \E i \in LiveForwarders("c1") :
        /\ fwd["c1"][i].lagged_at > 0
        /\ Forwarded("c1", fwd["c1"][i].lagged_at + 1)

\* a live forwarding task of c has not yet read an event that is overwritten
SlowSubscriber(c) == \E i \in LiveForwarders(c) : fwd[c][i].pos < Overwritten

\* C22: an event of any kind can be published in every state, whatever the
\* forwarding tasks have consumed and whether or not there is any (up to
\* the number of events considered)
C22_PublishNeverBlocks ==
    Len(published) < MaxEvents => \A kind \in EventKinds : ENABLED Publish(kind)

\* the buffer is full, a subscriber is behind, and the publisher has
\* published past it
C22_Witness ==
    /\ Len(published) > BusCapacity
    /\ Len(published) < MaxEvents
    /\ \E c \in Conns : SlowSubscriber(c)

(* --------------------------- closed connections ----------------------- *)
\* C23, as the specification states it: once an inbound connection is
\* closed, its forwarding task is cancelled and forwards nothing, and its
\* dispatches are cancelled: none starts, runs on or finishes, and nothing
\* more is put in its queue
C23_CloseCancelsAll ==
    [][\A c \in Inbound :
          phase[c] = "closed" =>
              /\ LiveForwarders(c) = {}
              /\ fwd'[c] = fwd[c]
              /\ out'[c] = out[c]
              /\ tasks'[c] = tasks[c]
              /\ limiter'[c] = limiter[c]]_vars

(* ----------------------------- write errors --------------------------- *)
\* the writer task of inbound connection c has stopped on a write error
WriterFailed(c) == Len(write_task[c]) > 0 /\ write_task[c][CurGen(c)] = "failed"

\* C24, as the specification states it: once the writer task of a connection
\* has stopped on a write error, no request read from that connection is
\* dispatched any more, and the other connections are left as they are
C24_WriteErrorCloses ==
    [][\A c \in Inbound :
          /\ WriterFailed(c) =>
                 /\ Len(reqs'[c]) <= Len(reqs[c])
                 /\ Len(tasks'[c]) <= Len(tasks[c])
          /\ (~WriterFailed(c) /\ WriterFailed(c)') =>
                 \A d \in Inbound \ {c} :
                     /\ phase'[d] = phase[d]
                     /\ write_task'[d] = write_task[d]
                     /\ tasks'[d] = tasks[d]
                     /\ out'[d] = out[d]]_vars

(* --------------------------- runner frames ---------------------------- *)
\* the runner reads a frame with the unsigned id k in this step
ReadsFrame(k) == Len(reqs[Runner]) = k - 1 /\ Len(reqs'[Runner]) = k

\* one pong is queued and nothing is dispatched
PongOnly ==
    /\ out'[Runner] = Append(out[Runner], Pong)
    /\ tasks'[Runner] = tasks[Runner]

\* nothing is queued and nothing is dispatched
NoEffect == out'[Runner] = out[Runner] /\ tasks'[Runner] = tasks[Runner]

\* C25, as the specification states it: a frame whose `type` is "ping" is
\* answered with one pong and not dispatched, a frame with any other `type`
\* value has no effect
C25_OnlyPingIsAnswered ==
    [][\A k \in 1..MaxIds :
          ReadsFrame(k) =>
              LET type == reqs'[Runner][k].line.type IN
              /\ type = JStr("ping") => PongOnly
              /\ (type # JAbsent /\ type # JStr("ping")) => NoEffect]_vars

\* C25: a frame whose `type` is a string equal to "ping" whatever the case of
\* its ASCII letters is answered with one pong and not dispatched; a frame
\* whose `type` is another string has no effect; a `type` that is not a
\* string is not looked at, the frame is handled by its method: here, a
\* request is dispatched
C25_PingInAnyCaseIsAnswered ==
    [][\A k \in 1..MaxIds :
          ReadsFrame(k) =>
              LET line == reqs'[Runner][k].line IN
              /\ (line.type.t = "str" /\ to_ascii_lowercase(line.type.s) = "ping") => PongOnly
              /\ (line.type.t = "str" /\ to_ascii_lowercase(line.type.s) # "ping") => NoEffect
              /\ (line.type.t \notin {"str", "absent"} /\ method_of(line.method) = "ping")
                    => /\ Len(tasks'[Runner]) = Len(tasks[Runner]) + 1
                       /\ out'[Runner] = out[Runner]]_vars

\* the runner has answered a ping spelled in capitals, and has read a frame
\* of another type and queued nothing for it
C25_Witness ==
    /\ pc = "connected"
    /\ Len(reqs[Runner]) = 2
    /\ reqs[Runner][1].line.type = JStr("PING")
    /\ reqs[Runner][2].line.type = JStr("other")
    /\ out[Runner] = <<Hello, Pong>>
    /\ tasks[Runner] = <<>>

\* the runner's connection is sent nothing that refuses a request
NeverUnauthorized ==
    \A i \in 1..Len(out[Runner]) :
        out[Runner][i] \notin {build_error_response(SomeN(k), m)[1] :
                                  k \in 1..MaxIds, m \in {"unauthorized", "invalid token"}}

\* C26: in runner mode an `auth` request with an id is answered
\* {id, result:{ok:true}} whatever its params and the configured token, and
\* one without an id is answered nothing; no forwarding task is started but
\* by a new connection; every other non-empty method is dispatched with no
\* `auth` before it, and nothing is ever refused
C26_RunnerAuthIsTrivial ==
    /\ [][/\ \A k \in 1..MaxIds :
                (ReadsFrame(k) /\ reqs'[Runner][k].line.type = JAbsent) =>
                    LET line == reqs'[Runner][k].line
                        method == method_of(line.method)
                    IN /\ method = "auth" =>
                             /\ out'[Runner] = out[Runner] \o build_result_response(SomeN(k), OkTrue)
                             /\ tasks'[Runner] = tasks[Runner]
                       /\ method \notin {"", "auth"} =>
                             /\ Len(tasks'[Runner]) = Len(tasks[Runner]) + 1
                             /\ tasks'[Runner][Len(tasks'[Runner])].method = method
                             /\ tasks'[Runner][Len(tasks'[Runner])].id = SomeN(k)
                             /\ out'[Runner] = out[Runner]
           /\ Len(fwd'[Runner]) > Len(fwd[Runner]) => connects' = connects + 1
           /\ authenticated'[Runner] = authenticated[Runner]]_vars
    /\ []NeverUnauthorized

\* with a token configured, the runner has answered an `auth` that carries
\* another token and then dispatched a request, with the one forwarding task
\* of its connection
C26_Witness ==
    /\ token.some
    /\ pc = "connected"
    /\ Len(reqs[Runner]) = 2
    /\ reqs[Runner][1].line = Line(JUint(1), JStr("auth"), JStr("wrong"))
    /\ method_of(reqs[Runner][2].line.method) = "ping"
    /\ out[Runner] = <<Hello>> \o build_result_response(SomeN(1), OkTrue)
    /\ Len(tasks[Runner]) = 1
    /\ Len(fwd[Runner]) = 1

(* ------------------------ the runner's tasks -------------------------- *)
\* the writer tasks of connection c that are running
LiveWriters(c) == {g \in 1..Len(write_task[c]) : write_task[c][g] = "live"}

\* C27: however often the runner has reconnected, it has at most one live
\* writer task and at most one live forwarding task, those of its current
\* connection, and none while it waits to retry
C27_OneWriterOneForwarder ==
    /\ Cardinality(LiveWriters(Runner)) <= 1
    /\ Cardinality(LiveForwarders(Runner)) <= 1
    /\ LiveWriters(Runner) \subseteq {connects}
    /\ \A i \in LiveForwarders(Runner) : fwd[Runner][i].gen = connects
    /\ pc # "connected" => (LiveWriters(Runner) = {} /\ LiveForwarders(Runner) = {})

\* the runner is in its second connection, the tasks of the first one were
\* live when that connection ended
C27_Witness ==
    /\ pc = "connected"
    /\ connects = 2
    /\ write_task[Runner] = <<"aborted", "live">>
    /\ Len(fwd[Runner]) = 2
    /\ ~fwd[Runner][1].live
    /\ fwd[Runner][2].live

(* --------------------- one limiter per connection --------------------- *)
\* the first request of connection c that waits for a permit
NextWaiting(c) ==
    {i \in 1..Len(tasks[c]) :
        /\ tasks[c][i].st = "waiting"
        /\ \A j \in 1..(i - 1) : tasks[c][j].st # "waiting"}

\* C28: a request of a connection that has a permit left can start whatever
\* the requests of the other connections hold, and the permits a connection
\* has left are its capacity less its own requests in flight
C28_LimiterPerConnection ==
    build = "transport" =>
        \A c \in Inbound :
            phase[c] # "idle" =>
                /\ limiter[c][1] = MAX_IN_FLIGHT_RPC_PER_CONNECTION - InFlight(c, 1)
                /\ \A i \in NextWaiting(c) :
                       InFlight(c, 1) < MAX_IN_FLIGHT_RPC_PER_CONNECTION => ENABLED TaskStart(c, i)

\* both connections have the full capacity in flight at once
C28_Witness ==
    /\ build = "transport"
    /\ \A c \in Inbound : phase[c] = "open" /\ InFlight(c, 1) = MAX_IN_FLIGHT_RPC_PER_CONNECTION

(* ------------------------- correlation by id -------------------------- *)
\* what the line that connection c read with id k is answered: the handler's
\* own answer where it gives one, the RPC engine's for the line's method and
\* params otherwise
Outcome(c, k) ==
    LET line == reqs[c][k].line
        method == method_of(line.method)
    IN IF c = Runner
       THEN IF method = "auth" THEN build_result_response(SomeN(k), OkTrue)
            ELSE Answer(line, k)
       ELSE IF reqs[c][k].was THEN Answer(line, k)
            ELSE IF method # "auth" THEN build_error_response(SomeN(k), "unauthorized")
            ELSE IF GoodAuth(line) THEN build_result_response(SomeN(k), OkTrue)
            ELSE build_error_response(SomeN(k), "invalid token")

StartOver == startup.at \in {"running", "exited"}

\* no orbit URL was given
InboundMode == ~startup.orbit_flag

\* C30, as the specification states it: without an orbit URL, a start that
\* was given both --token and --insecure-no-auth is refused; a start that
\* ends with neither a non-empty token nor --insecure-no-auth exits with
\* code 2; and the token of an accepted configuration is absent or a
\* non-empty string, absent only when --insecure-no-auth was given
C30_TokenOrInsecure ==
    (StartOver /\ InboundMode) =>
        /\ (startup.token_flag /\ startup.insecure_no_auth) => startup.at = "exited"
        /\ startup.at = "exited" => startup.exit = 2
        /\ (~startup.token.some /\ ~startup.insecure_no_auth) => startup.at = "exited"
        /\ startup.at = "running" =>
              /\ startup.token.some => startup.token.s # ""
              /\ ~startup.token.some => startup.insecure_no_auth


(* ------------------------ parameter extraction ------------------------ *)
\* the fields a method requires, and the type its arm reads them as
Required(method) ==
    CASE method = "add_workspace" -> {"path"}
      [] method \in {"connect_workspace", "remove_workspace"} -> {"id"}
      [] method = "update_app_settings" -> {"settings"}
      [] OTHER -> {}
WellTyped(key, value) == IF key = "settings" THEN value.t = "obj" ELSE value.t = "str"

\* the required fields of a request that are missing or wrong-typed
Faulty(method, params) == {key \in Required(method) : ~WellTyped(key, get(params, key))}

\* an error message that names the field
Names(message, key) ==
    message \in {"missing " \o Quoted(key), "missing or invalid " \o Quoted(key)}

\* the requests of the callers that were answered
AnsweredCalls == {s \in Callers : calls[s].at = "done" /\ calls[s].method # ""}

\* C31: a request whose required field is missing or wrong-typed is answered
\* with an error whose message names that field, and its operation is not
\* invoked; a request whose required fields are right and whose optional
\* field is absent passes extraction with the optional field read as None
C31_ExtractionNamesField ==
    /\ \A s \in AnsweredCalls :
           Faulty(calls[s].method, calls[s].params) # {}
               => /\ ~calls[s].res.ok
                  /\ calls[s].op = "none"
                  /\ \E key \in Faulty(calls[s].method, calls[s].params) :
                         Names(calls[s].res.text, key)
    /\ \A s \in Callers :
           /\ calls[s].method = "add_workspace"
           /\ Faulty("add_workspace", calls[s].params) = {}
           /\ get(calls[s].params, "codex_bin") = JAbsent
           => /\ route("add_workspace", calls[s].params).ok
              /\ route("add_workspace", calls[s].params).args.codex_bin = None


\* a request that routing must refuse: an unknown method, or a known one
\* with a required field missing or wrong-typed
Unroutable(s) ==
    /\ calls[s].method # ""
    /\ \/ calls[s].method \notin Methods \ {"bogus"}
       \/ Faulty(calls[s].method, calls[s].params) # {}

\* C35: no step taken for a request with an unknown method, or with a
\* required parameter that fails validation, changes the workspace map, the
\* session map or the app settings, or spawns a session
C35_RoutingHasNoSideEffect ==
    [][\A s \in Callers :
          (Unroutable(s) /\ calls'[s] # calls[s])
              => /\ workspaces' = workspaces
                 /\ sessions' = sessions
                 /\ spawned' = spawned
                 /\ last_id' = last_id
                 /\ app_settings' = app_settings]_vars

\* a request with a faulty required field was refused, after a request
\* that changed the settings
C35_Witness ==
    /\ app_settings = "settings"
    /\ \E s \in Callers :
           /\ Unroutable(s)
           /\ calls[s].method = "add_workspace"
           /\ calls[s].at = "done"
           /\ ~calls[s].res.ok


(* ------------------------- TCP and WebSocket -------------------------- *)
\* the responses enqueued on the outbound queue of connection c
Enqueued(c) == {out[c][i] : i \in {j \in 1..Len(out[c]) : IsResponse(out[c][j])}}

\* the frames that carry no logical line
Ignored == {"ping", "pong", "frame", "invalid"}

\* the TCP connection c has been sent all that the WebSocket connection d
\* has been sent, and both have handled it
SameLines(c, d) ==
    /\ phase[c] = "open"
    /\ Settled(d)
    /\ wire[c].lines = wire[d].lines

\* C32: a TCP connection and a WebSocket connection that were sent the same
\* logical lines went through the same authentication states, have an event
\* forwarding task or none alike, and have enqueued the same responses once
\* their requests are answered; and a ping, pong or raw frame, or a binary
\* frame that is no UTF-8, changes nothing of its connection
C32_HandlersEquivalent ==
    /\ [](SameLines("c1", "c2")
            => /\ authenticated["c1"] = authenticated["c2"]
               /\ reqs["c1"] = reqs["c2"]
               /\ (events_task["c1"] = 0) = (events_task["c2"] = 0)
               /\ tasks["c1"] = <<>> => Enqueued("c1") = Enqueued("c2"))
    /\ [][\A c \in Inbound :
            (wire'[c].frames # wire[c].frames /\ wire'[c].last \in Ignored)
                => /\ wire'[c].rest = <<>>
                   /\ wire'[c].lines = wire[c].lines
                   /\ phase'[c] = phase[c]
                   /\ authenticated'[c] = authenticated[c]
                   /\ events_task'[c] = events_task[c]
                   /\ fwd'[c] = fwd[c]
                   /\ out'[c] = out[c]
                   /\ tasks'[c] = tasks[c]
                   /\ limiter'[c] = limiter[c]
                   /\ reqs'[c] = reqs[c]]_vars

\* both connections were sent the token and a request, the WebSocket one in
\* one frame and followed by a frame without a line, and have answered
C32_Witness ==
    /\ token.some
    /\ SameLines("c1", "c2")
    /\ Len(wire["c2"].lines) = 2
    /\ wire["c2"].frames = 2
    /\ wire["c2"].last \in Ignored
    /\ authenticated["c1"]
    /\ tasks["c1"] = <<>>
    /\ Cardinality(Enqueued("c1")) = 2


(* --------------------------- listen address --------------------------- *)
\* the host of the settings, without the white space around it
TheHost == trim_chars(app_state.settings.remote_backend_host)

\* the places of a host after which a port follows to its end
PortPlaces(h) ==
    {i \in 1..Len(h) :
        /\ h[i] = ":"
        /\ i < Len(h)
        /\ \A j \in (i + 1)..Len(h) : h[j] \in Digits
        /\ Value(SubSeq(h, i + 1, Len(h))) <= U16_MAX}

\* the port a host ends in, or the fallback
PortOf(h) ==
    IF PortPlaces(h) = {} THEN DEFAULT_PORT
    ELSE Value(SubSeq(h, (CHOOSE i \in PortPlaces(h) : TRUE) + 1, Len(h)))

\* C34: the listen address a command computes is "0.0.0.0:<port>" with the
\* port the host ends in, and with 4732 when the host is empty or ends in
\* no valid port
C34_ListenAddr ==
    \A s \in Callers :
        app_state.cmds[s].at = "wait"
            => app_state.cmds[s].listen_addr = "0.0.0.0:" \o ToString(PortOf(TheHost))

\* a host with two colons that ends in a port, and one whose number is
\* too large for a port
C34_Witness ==
    /\ app_state.cmds["p"].at = "wait"
    /\ \/ Cardinality(Colons(TheHost)) = 2 /\ PortOf(TheHost) = 9
       \/ /\ Colons(TheHost) # {}
          /\ Len(TheHost) = MaxHostLen
          /\ \A j \in 2..Len(TheHost) : TheHost[j] \in Digits
          /\ app_state.cmds["p"].listen_addr = "0.0.0.0:4732"

\* C33: sync_tcp_daemon_listen_addr leaves a Running status with a listen
\* address as it is, and sets the listen address of any other status to the
\* configured one, changing no other field
C33_SyncListenAddr ==
    [][\A s \in Callers :
          (app_state'.cmds[s].op = "sync" /\ app_state.cmds[s].op # "sync")
              => LET old == app_state.tcp_daemon.status
                     new == app_state'.tcp_daemon.status
                 IN IF old.state = "Running" /\ old.listen_addr.some THEN new = old
                    ELSE /\ new.listen_addr = SomeS(app_state.cmds[s].listen_addr)
                         /\ new.state = old.state
                         /\ new.pid = old.pid
                         /\ new.started_at_ms = old.started_at_ms
                         /\ new.last_error = old.last_error]_vars

\* a Running status has kept a listen address that is not the configured one
C33_Witness ==
    /\ app_state.cmds["p"].op = "sync"
    /\ app_state.tcp_daemon.status.state = "Running"
    /\ app_state.tcp_daemon.status.listen_addr = SomeS("0.0.0.0:7777")
    /\ app_state.cmds["p"].listen_addr = "0.0.0.0:6"


(* ------------------------ the desktop's daemon ------------------------ *)
\* the command of caller s returns in this step
Returns(s, op) ==
    /\ app_state.cmds[s].at # "done"
    /\ app_state'.cmds[s].at = "done"
    /\ app_state'.cmds[s].op = op

\* the child processes that run
RunningChildren ==
    {i \in 1..Len(app_state.children) : app_state.children[i] = "running"}

\* the tracked child is still running
ChildRuns ==
    /\ app_state.tcp_daemon.child # 0
    /\ app_state.children[app_state.tcp_daemon.child] = "running"

\* no child process runs but the tracked one
OneChild == RunningChildren \subseteq {app_state.tcp_daemon.child}

\* a start issued while the child runs returns the Running status of that
\* child and spawns nothing
StartWhileRunning ==
    \A s \in Callers :
        (Returns(s, "start") /\ app_state.cmds[s].at = "wait" /\ ChildRuns)
            => /\ app_state'.cmds[s].ok
               /\ app_state'.tcp_daemon.status.state = "Running"
               /\ app_state'.tcp_daemon.child = app_state.tcp_daemon.child
               /\ app_state'.children = app_state.children

\* C39 as stated: at most one child is tracked and runs, a start while the
\* child runs returns the Running status and spawns nothing, and after a
\* start that fails no child is tracked and the state is not Running
C39_FailedStartLeavesNoChild ==
    /\ []OneChild
    /\ [][/\ StartWhileRunning
          /\ \A s \in Callers :
                (Returns(s, "start") /\ ~app_state'.cmds[s].ok)
                    => /\ app_state'.tcp_daemon.child = 0
                       /\ app_state'.tcp_daemon.status.state # "Running"]_vars

\* C39, amended: at most one child is tracked and runs, a start while the
\* child runs returns the Running status and spawns nothing, and a start
\* that fails spawns nothing, tracks no child that was not tracked before
\* it, and does not change the state to Running
C39_FailedStartSpawnsNothing ==
    /\ []OneChild
    /\ [][/\ StartWhileRunning
          /\ \A s \in Callers :
                (Returns(s, "start") /\ ~app_state'.cmds[s].ok)
                    => /\ Len(app_state'.children) = Len(app_state.children)
                       /\ app_state'.tcp_daemon.child \in {0, app_state.tcp_daemon.child}
                       /\ app_state'.tcp_daemon.status.state = "Running"
                              => app_state.tcp_daemon.status.state = "Running"]_vars

\* a start has returned the Running status of the child that runs, while
\* the start of another caller has failed
C39_Witness ==
    /\ ChildRuns
    /\ Len(app_state.children) = 1
    /\ app_state.cmds["p"].op = "start"
    /\ app_state.cmds["p"].at = "done"
    /\ app_state.cmds["p"].ok
    /\ app_state.cmds["q"].op = "start"
    /\ app_state.cmds["q"].at = "done"
    /\ ~app_state.cmds["q"].ok

\* the state of the status fits the handle of the child
StateFitsChild ==
    /\ app_state.tcp_daemon.status.state = "Running" => app_state.tcp_daemon.child # 0
    /\ app_state.tcp_daemon.child = 0
          => app_state.tcp_daemon.status.state \in {"Stopped", "Error"}

\* C40: the state is Running only with a tracked child, it is Stopped or
\* Error without one, and a stop that returns leaves Stopped with no child,
\* no pid, no start time and no last error
C40_RunningOnlyWithChild ==
    /\ []StateFitsChild
    /\ [][\A s \in Callers :
            Returns(s, "stop")
                => /\ app_state'.tcp_daemon.child = 0
                   /\ app_state'.tcp_daemon.status.state = "Stopped"
                   /\ app_state'.tcp_daemon.status.pid = None
                   /\ app_state'.tcp_daemon.status.started_at_ms = None
                   /\ app_state'.tcp_daemon.status.last_error = None]_vars

\* a stop has returned after a child had failed and another was started
C40_Witness ==
    /\ app_state.cmds["p"].op = "stop"
    /\ app_state.cmds["p"].at = "done"
    /\ Len(app_state.children) = 2
    /\ app_state.tcp_daemon.status.listen_addr.some


(* ---------------------- events during requests ------------------------ *)
\* connection c is authenticated and open, a request of it is executing, and
\* event n is published and is one its forwarding task is to see
BusyAt(c, n) ==
    /\ phase[c] = "open"
    /\ authenticated[c]
    /\ tasks[c] # <<>>
    /\ n <= Len(published)
    /\ \E i \in LiveForwarders(c) : fwd[c][i].from < n

\* C36 as stated: every event published while a request of the connection
\* is executing reaches the queue of the connection, unless the connection
\* is closed
C36_EveryEventArrives ==
    \A n \in 1..MaxEvents : BusyAt("c1", n) ~> (Forwarded("c1", n) \/ phase["c1"] # "open")

\* C36, amended: every event published while a request of the connection is
\* executing, whether or not the request ever finishes, reaches the queue of
\* the connection, unless the bus has overwritten the event before the
\* forwarding task read it, or the connection is closed
C36_EventsFlowWhileBusy ==
    \A n \in 1..MaxEvents :
        BusyAt("c1", n) ~> (Forwarded("c1", n) \/ phase["c1"] # "open" \/ n <= Overwritten)

\* the last event is in the queue of a connection whose request is still
\* executing and has not been answered
C36_Witness ==
    /\ tasks["c1"] # <<>>
    /\ Responses("c1", 1) = {}
    /\ Len(reqs["c1"]) = 1
    /\ Len(published) = MaxEvents
    /\ Forwarded("c1", MaxEvents)


(* ----------------------- authentication states ------------------------ *)
\* C37: an inbound connection that is authenticated stays so whatever it
\* reads and whatever is answered, also when it is closed; and a connection
\* that is closed stays closed
C37_AuthenticatedIsMonotone ==
    [][\A c \in Inbound :
          /\ authenticated[c] => authenticated'[c]
          /\ phase[c] = "closed" => phase'[c] = "closed"
          /\ phase[c] = "open" => phase'[c] \in {"open", "closed"}]_vars

\* a connection that had to authenticate has, while authenticated, read an
\* `auth` with a wrong token and a request for an unknown method, and has
\* the error result of that request in its queue
C37_Witness ==
    /\ token.some
    /\ authenticated["c1"]
    /\ \E i, j \in 1..Len(reqs["c1"]) :
           /\ reqs["c1"][i].was
           /\ reqs["c1"][i].line.method = JStr("auth")
           /\ reqs["c1"][i].line.params = JStr("wrong")
           /\ reqs["c1"][j].was
           /\ reqs["c1"][j].line.method = JStr("nope")
           /\ \E k \in Responses("c1", j) : out["c1"][k].kind = "error"


(* -------------------------- the backoff delay ------------------------- *)
\* C38: the delay of the runner's reconnect loop is always between the base
\* and the ceiling, and from one wait to the next it does not decrease unless
\* a connection has succeeded in between
C38_DelayWithinBounds ==
    /\ [](BASE_DELAY <= reconnect_delay /\ reconnect_delay <= MAX_DELAY)
    /\ [][connects' = connects => reconnect_delay' >= reconnect_delay]_vars

\* the runner sleeps the ceiling for the second time in a run of failures
\* that began at the start
C38_Witness ==
    /\ pc = "sleeping"
    /\ connects = 0
    /\ fails = MaxFailures
    /\ waits = MaxFailures
    /\ reconnect_delay = MAX_DELAY

====
